---- MODULE Spec2Model ----
(***************************************************************************)
(* Livability scoring pipeline of Futuricty: the localStorage-backed cache *)
(* (src/src/services/cacheService.ts) and the fetch orchestrator of        *)
(* calculateLivabilityScore (src/src/services/livabilityService.ts).       *)
(*                                                                         *)
(* Time is in milliseconds and is kept relative to the current instant:    *)
(* a cache entry carries its age Date.now() - timestamp in place of its    *)
(* timestamp, a pending delay() carries the time left until it resolves,   *)
(* and the passage of time (Tick) ages the entries and runs the timers     *)
(* down.  Coordinates are fixed-point numbers in units of 1e-4 degree      *)
(* (10001 stands for 1.0001).  Contributions and category sums are         *)
(* fixed-point numbers in units of 1e-3.                                   *)
(***************************************************************************)
EXTENDS Integers, Sequences, FiniteSets, TLC

VARIABLES
    store,      \* localStorage restricted to the keys with prefix f_cache_
    world,      \* map data the Overpass server holds, per category query
    pois,       \* custom POIs held by customPoiService
    pc,         \* per run: position in calculateLivabilityScore
    origin,     \* per run: the (lat, lng) arguments
    ci,         \* per run: index of the category being fetched
    attempt,    \* per run: loop variable i of fetchCategoryWithRetry
    timer,      \* per run: time left until the pending delay() resolves
    results,    \* per run: the results array
    output,     \* per run: the value returned by calculateLivabilityScore
    inflight,   \* network requests issued and not yet answered
    log,        \* per run: what happened in the current category (observation)
    hist,       \* per run: how each finished category ended (observation)
    elapsed,    \* per run: time since the last category ended (observation)
    fetched,    \* keys for which a request got a success response (observation)
    gaveUp,     \* keys some run has given up on (observation)
    written,    \* the last successful write of each key (observation)
    ret,        \* what the last direct cache operation returned (observation)
    budget,     \* failures the network may still produce
    calls,      \* per run: calls of calculateLivabilityScore still to be made
    ncat,       \* number of leading categories the runs iterate over
    probe       \* a distance, a category and the contribution computed for them

vars == <<store, world, pois, pc, origin, ci, attempt, timer, results, output,
          inflight, log, hist, elapsed, fetched, gaveUp, written, ret, budget, calls,
          ncat, probe>>

----------------------------------------------------------------------------
(* Bounds of the model *)

NumCats == 2        \* categories a single run iterates over
SharedCats == 1     \* categories two concurrent runs iterate over
NextCats == 1       \* categories successive runs iterate over
MaxKeys == 101      \* writes explored when the cache is filled
CacheKeys == 2      \* distinct keys used when the cache is used directly
MaxSets == 3        \* writes explored when the cache is used directly
MaxFailures == 1    \* failed requests explored when two runs share the cache
MaxCalls == 2       \* successive calls of calculateLivabilityScore explored
MaxProbe == 10020   \* largest distance (decimetres) a contribution is computed for
MergeCats == 2      \* categories iterated over when results are merged
MaxElements == 3    \* longest element list given to processFacilities
MaxSum == 20000000  \* largest category sum (units of 1e-5) sub-scores are computed for
LiveFetched == 1   \* categories the run over all categories has to fetch

----------------------------------------------------------------------------
(* Program constants *)

maxSize == 100
defaultTTL == 300000         \* 5 * 60 * 1000 ms
FacilityTTL == 1800000       \* 30 * 60 * 1000 ms
retries == 3
InterCategoryDelay == 2000
RateLimitWait == 5000
BackoffUnit == 2000

CategoryOrder ==
    << "health", "education", "market", "transport", "walkability",
       "recreation", "safety", "accessibility", "police", "religious" >>

CategoryEnum == { CategoryOrder[n] : n \in 1..Len(CategoryOrder) }

\* Object.keys(FACILITY_DISTANCES), cut to the categories explored
categories == SubSeq(CategoryOrder, 1, ncat)

\* Two callers of calculateLivabilityScore.
Runs == { 1, 2 }

----------------------------------------------------------------------------
(* Strings are sequences of character codes. *)

Min(a, b) == IF a <= b THEN a ELSE b
Max(a, b) == IF a >= b THEN a ELSE b

RECURSIVE DigitsOf(_)
DigitsOf(n) ==
    IF n < 10 THEN << 48 + n >> ELSE DigitsOf(n \div 10) \o << 48 + (n % 10) >>

RECURSIVE StripZeros(_)
StripZeros(s) ==
    IF Len(s) > 0 /\ s[Len(s)] = 48 THEN StripZeros(SubSeq(s, 1, Len(s) - 1)) ELSE s

\* Number.prototype.toString of a non-negative coordinate with at most four
\* decimals: shortest decimal representation.
NumToString(v) ==
    LET ip == v \div 10000
        fp == v % 10000
        four == << 48 + (fp \div 1000), 48 + ((fp \div 100) % 10),
                   48 + ((fp \div 10) % 10), 48 + (fp % 10) >>
    IN  IF fp = 0 THEN DigitsOf(ip) ELSE DigitsOf(ip) \o << 46 >> \o StripZeros(four)

\* Number.prototype.toFixed(3): the coordinate rounded to three decimals, as
\* the integer number of thousandths (the string has a fixed format, so two
\* strings are equal exactly when these integers are).
toFixed3(v) == (v + 5) \div 10

\* cacheUtils.hash: h = ((h << 5) - h + char) & 0xffffffff, kept in two
\* 16-bit limbs so that no intermediate value leaves the 32-bit range.
RECURSIVE HashLimbs(_, _, _)
HashLimbs(str, hi, lo) ==
    IF str = << >> THEN << hi, lo >>
    ELSE LET lo1 == 31 * lo + Head(str)
             hi1 == 31 * hi + (lo1 \div 65536)
         IN  HashLimbs(Tail(str), hi1 % 65536, lo1 % 65536)

\* The string and the limbs are bound as values: each is evaluated once.
hash(str) ==
    LET Signed(l) ==
            IF l[1] >= 32768 THEN (l[1] - 65536) * 65536 + l[2] ELSE l[1] * 65536 + l[2]
    IN  CHOOSE h \in { Signed(l) : l \in { HashLimbs(s, 0, 0) : s \in { str } } } : TRUE

CategoryIndex(c) == CHOOSE n \in 1..Len(CategoryOrder) : CategoryOrder[n] = c

\* generateOverpassQuery followed by the {lat}/{lng} replacement: the query
\* text of a category is its own clause list with the unrounded coordinates
\* substituted.  The clause list is abbreviated to one clause
\* "<category letter>(around:<lat>,<lng>)".
formattedQuery(category, lat, lng) ==
    << 96 + CategoryIndex(category), 40 >> \o NumToString(lat) \o << 44 >>
        \o NumToString(lng) \o << 41 >>

\* generateKey("location-" + dataType, {lat, lng}): the key string is
\* determined by the data type and the two toFixed(3) strings.
generateKey(dataType, lat3, lng3) == << dataType, lat3, lng3 >>

\* Origins of the scoring runs: 1.0001 and 1.0002 both round to 1.000.
Origins1 == << 10001, 20000 >>

Origins == { << 10001, 20000 >>, << 10002, 20000 >> }

\* The key used by getCachedLocationData / cacheLocationData for a category.
LocationKey(category, lat, lng) ==
    generateKey(hash(formattedQuery(category, lat, lng)), toFixed3(lat), toFixed3(lng))

----------------------------------------------------------------------------
(* CacheService.  The store maps each present key to its localStorage item:  *)
(* a JSON text holding {data, timestamp, ttl}, or a text JSON.parse rejects  *)
(* (valid = FALSE), or a JSON text holding {timestamp, ttl} with no data     *)
(* member (hasData = FALSE).                                                 *)

\* age stands for Date.now() - timestamp; it is 0 when the entry is written.
Entry(data, age, ttl) ==
    [valid |-> TRUE, hasData |-> TRUE, data |-> data, age |-> age, ttl |-> ttl]

CorruptItem == [valid |-> FALSE, hasData |-> FALSE, data |-> << >>, age |-> 0, ttl |-> 0]

\* An item that parses but whose data member is missing: entry.data is
\* undefined.
MissingData(age, ttl) ==
    [valid |-> TRUE, hasData |-> FALSE, data |-> << >>, age |-> age, ttl |-> ttl]

Restrict(f, S) == [k \in S |-> f[k]]

Put(st, key, e) == [k \in DOMAIN st \cup {key} |-> IF k = key THEN e ELSE st[k]]

removeItem(st, key) == Restrict(st, DOMAIN st \ {key})

\* Variant: an entry is expired already at timestamp + ttl.
Expired_AtTtl(e) == e.age >= e.ttl

\* The expiry test of get and prune: Date.now() - timestamp > ttl.
Expired(e) == e.age > e.ttl

\* get(key): what it returns and the store it leaves.  found: the value is
\* the data of an entry; undefined: the value is undefined (neither null nor
\* data); otherwise the value is null.
get(st, key) ==
    IF key \notin DOMAIN st
      THEN [found |-> FALSE, undefined |-> FALSE, data |-> << >>, store |-> st]
    ELSE IF ~st[key].valid
      THEN [found |-> FALSE, undefined |-> FALSE, data |-> << >>, store |-> st]
    ELSE IF Expired(st[key])
      THEN [found |-> FALSE, undefined |-> FALSE, data |-> << >>,
            store |-> removeItem(st, key)]
    ELSE [found |-> st[key].hasData, undefined |-> ~st[key].hasData,
          data |-> st[key].data, store |-> st]

RECURSIVE KSubsets(_, _)
KSubsets(S, j) ==
    IF j = 0 THEN { {} }
    ELSE UNION { { {x} \cup R : R \in KSubsets(S \ {x}, j - 1) } : x \in S }

\* prune(): expired and corrupted items are removed; when more than maxSize
\* valid entries remain the oldest are removed.  Entries of equal timestamp
\* are taken in the iteration order of localStorage, which the program does
\* not control: every such choice is a possible result.
PruneResults(st) ==
    LET live == Restrict(st, { k \in DOMAIN st : st[k].valid /\ ~Expired(st[k]) })
        n    == Cardinality(DOMAIN live)
        m    == n - maxSize
        Older(k) == { j \in DOMAIN live : live[j].age > live[k].age }
        Same(k)  == { j \in DOMAIN live : live[j].age = live[k].age }
    IN  IF n <= maxSize THEN { live }
        ELSE LET pivot == CHOOSE k \in DOMAIN live :
                              /\ Cardinality(Older(k)) < m
                              /\ Cardinality(Older(k) \cup Same(k)) >= m
             IN  { Restrict(live, DOMAIN live \ (Older(pivot) \cup R)) :
                     R \in KSubsets(Same(pivot), m - Cardinality(Older(pivot))) }

\* set(key, data, ttl): the stores it can leave.  localStorage.setItem either
\* succeeds, or throws QuotaExceededError (then prune() and one more setItem,
\* which succeeds or throws again), or throws another error (nothing is
\* written).
\* Variant: the item written holds the data without its last element.
SetWritten_Partial(st, key, data, ttl) ==
    { Put(p, key, Entry(SubSeq(data, 1, Len(data) - 1), 0, ttl)) :
        p \in PruneResults(st) \cup { st } }

SetWritten(st, key, data, ttl) ==
    { Put(st, key, Entry(data, 0, ttl)) }
        \cup { Put(p, key, Entry(data, 0, ttl)) : p \in PruneResults(st) }

SetNotWritten(st) == PruneResults(st) \cup { st }

SetResults(st, key, data, ttl) ==
    SetWritten(st, key, data, ttl) \cup SetNotWritten(st)

\* delete(key)
delete(st, key) == removeItem(st, key)

----------------------------------------------------------------------------
(* Literal tables *)

\* The character codes of every string literal the model uses.
Text ==
        (" (Custom)" :> << 32, 40, 67, 117, 115, 116, 111, 109, 41 >>)
     @@ (" sma" :> << 32, 115, 109, 97 >>)
     @@ (" smp" :> << 32, 115, 109, 112 >>)
     @@ ("30" :> << 51, 48 >>)
     @@ ("Apotek" :> << 65, 112, 111, 116, 101, 107 >>)
     @@ ("Halte A" :> << 72, 97, 108, 116, 101, 32, 65 >>)
     @@ ("Kedai" :> << 75, 101, 100, 97, 105 >>)
     @@ ("Klinik Sehat" :> << 75, 108, 105, 110, 105, 107, 32, 83, 101, 104, 97, 116 >>)
     @@ ("My Place" :> << 77, 121, 32, 80, 108, 97, 99, 101 >>)
     @@ ("Pos" :> << 80, 111, 115 >>)
     @@ ("RS Universitas" :> << 82, 83, 32, 85, 110, 105, 118, 101, 114, 115, 105, 116, 97, 115 >>)
     @@ ("Rumah Sakit Polisi" :> << 82, 117, 109, 97, 104, 32, 83, 97, 107, 105, 116, 32, 80, 111, 108, 105, 115, 105 >>)
     @@ ("SD Negeri 1" :> << 83, 68, 32, 78, 101, 103, 101, 114, 105, 32, 49 >>)
     @@ ("SDN 1" :> << 83, 68, 78, 32, 49 >>)
     @@ ("Taman Kota" :> << 84, 97, 109, 97, 110, 32, 75, 111, 116, 97 >>)
     @@ ("accessibility" :> << 97, 99, 99, 101, 115, 115, 105, 98, 105, 108, 105, 116, 121 >>)
     @@ ("accessibility facility" :> << 97, 99, 99, 101, 115, 115, 105, 98, 105, 108, 105, 116, 121, 32, 102, 97, 99, 105, 108, 105, 116, 121 >>)
     @@ ("angkot" :> << 97, 110, 103, 107, 111, 116 >>)
     @@ ("apotek" :> << 97, 112, 111, 116, 101, 107 >>)
     @@ ("apotik" :> << 97, 112, 111, 116, 105, 107 >>)
     @@ ("bar" :> << 98, 97, 114 >>)
     @@ ("bebe" :> << 98, 101, 98, 101 >>)
     @@ ("bench" :> << 98, 101, 110, 99, 104 >>)
     @@ ("bensin" :> << 98, 101, 110, 115, 105, 110 >>)
     @@ ("bioskop" :> << 98, 105, 111, 115, 107, 111, 112 >>)
     @@ ("both" :> << 98, 111, 116, 104 >>)
     @@ ("bp" :> << 98, 112 >>)
     @@ ("bridleway" :> << 98, 114, 105, 100, 108, 101, 119, 97, 121 >>)
     @@ ("buddhist_temple" :> << 98, 117, 100, 100, 104, 105, 115, 116, 95, 116, 101, 109, 112, 108, 101 >>)
     @@ ("bus stop" :> << 98, 117, 115, 32, 115, 116, 111, 112 >>)
     @@ ("bus_stop" :> << 98, 117, 115, 95, 115, 116, 111, 112 >>)
     @@ ("cafe" :> << 99, 97, 102, 101 >>)
     @@ ("caltex" :> << 99, 97, 108, 116, 101, 120 >>)
     @@ ("camera" :> << 99, 97, 109, 101, 114, 97 >>)
     @@ ("candi" :> << 99, 97, 110, 100, 105 >>)
     @@ ("center" :> << 99, 101, 110, 116, 101, 114 >>)
     @@ ("centre" :> << 99, 101, 110, 116, 114, 101 >>)
     @@ ("church" :> << 99, 104, 117, 114, 99, 104 >>)
     @@ ("cinema" :> << 99, 105, 110, 101, 109, 97 >>)
     @@ ("clinic" :> << 99, 108, 105, 110, 105, 99 >>)
     @@ ("coffee_shop" :> << 99, 111, 102, 102, 101, 101, 95, 115, 104, 111, 112 >>)
     @@ ("college" :> << 99, 111, 108, 108, 101, 103, 101 >>)
     @@ ("community_centre" :> << 99, 111, 109, 109, 117, 110, 105, 116, 121, 95, 99, 101, 110, 116, 114, 101 >>)
     @@ ("crossing" :> << 99, 114, 111, 115, 115, 105, 110, 103 >>)
     @@ ("custom" :> << 99, 117, 115, 116, 111, 109 >>)
     @@ ("dentist" :> << 100, 101, 110, 116, 105, 115, 116 >>)
     @@ ("designated" :> << 100, 101, 115, 105, 103, 110, 97, 116, 101, 100 >>)
     @@ ("doctors" :> << 100, 111, 99, 116, 111, 114, 115 >>)
     @@ ("dokter" :> << 100, 111, 107, 116, 101, 114 >>)
     @@ ("drinking_water" :> << 100, 114, 105, 110, 107, 105, 110, 103, 95, 119, 97, 116, 101, 114 >>)
     @@ ("education" :> << 101, 100, 117, 99, 97, 116, 105, 111, 110 >>)
     @@ ("education facility" :> << 101, 100, 117, 99, 97, 116, 105, 111, 110, 32, 102, 97, 99, 105, 108, 105, 116, 121 >>)
     @@ ("elevator" :> << 101, 108, 101, 118, 97, 116, 111, 114 >>)
     @@ ("esso" :> << 101, 115, 115, 111 >>)
     @@ ("fast_food" :> << 102, 97, 115, 116, 95, 102, 111, 111, 100 >>)
     @@ ("fire_station" :> << 102, 105, 114, 101, 95, 115, 116, 97, 116, 105, 111, 110 >>)
     @@ ("fitness" :> << 102, 105, 116, 110, 101, 115, 115 >>)
     @@ ("fitness_centre" :> << 102, 105, 116, 110, 101, 115, 115, 95, 99, 101, 110, 116, 114, 101 >>)
     @@ ("flush" :> << 102, 108, 117, 115, 104 >>)
     @@ ("food_court" :> << 102, 111, 111, 100, 95, 99, 111, 117, 114, 116 >>)
     @@ ("foot" :> << 102, 111, 111, 116 >>)
     @@ ("footway" :> << 102, 111, 111, 116, 119, 97, 121 >>)
     @@ ("fuel" :> << 102, 117, 101, 108 >>)
     @@ ("garden" :> << 103, 97, 114, 100, 101, 110 >>)
     @@ ("gas station" :> << 103, 97, 115, 32, 115, 116, 97, 116, 105, 111, 110 >>)
     @@ ("gas_station" :> << 103, 97, 115, 95, 115, 116, 97, 116, 105, 111, 110 >>)
     @@ ("gereja" :> << 103, 101, 114, 101, 106, 97 >>)
     @@ ("grass" :> << 103, 114, 97, 115, 115 >>)
     @@ ("gudang" :> << 103, 117, 100, 97, 110, 103 >>)
     @@ ("gym" :> << 103, 121, 109 >>)
     @@ ("halt" :> << 104, 97, 108, 116 >>)
     @@ ("halte" :> << 104, 97, 108, 116, 101 >>)
     @@ ("health" :> << 104, 101, 97, 108, 116, 104 >>)
     @@ ("health facility" :> << 104, 101, 97, 108, 116, 104, 32, 102, 97, 99, 105, 108, 105, 116, 121 >>)
     @@ ("hedge" :> << 104, 101, 100, 103, 101 >>)
     @@ ("hiking" :> << 104, 105, 107, 105, 110, 103 >>)
     @@ ("hindu_temple" :> << 104, 105, 110, 100, 117, 95, 116, 101, 109, 112, 108, 101 >>)
     @@ ("hospital" :> << 104, 111, 115, 112, 105, 116, 97, 108 >>)
     @@ ("ice_cream" :> << 105, 99, 101, 95, 99, 114, 101, 97, 109 >>)
     @@ ("kampus" :> << 107, 97, 109, 112, 117, 115 >>)
     @@ ("katedral" :> << 107, 97, 116, 101, 100, 114, 97, 108 >>)
     @@ ("kedai" :> << 107, 101, 100, 97, 105 >>)
     @@ ("kerb" :> << 107, 101, 114, 98 >>)
     @@ ("kindergarten" :> << 107, 105, 110, 100, 101, 114, 103, 97, 114, 116, 101, 110 >>)
     @@ ("klinik" :> << 107, 108, 105, 110, 105, 107 >>)
     @@ ("kolam renang" :> << 107, 111, 108, 97, 109, 32, 114, 101, 110, 97, 110, 103 >>)
     @@ ("left" :> << 108, 101, 102, 116 >>)
     @@ ("library" :> << 108, 105, 98, 114, 97, 114, 121 >>)
     @@ ("lowered" :> << 108, 111, 119, 101, 114, 101, 100 >>)
     @@ ("lrt" :> << 108, 114, 116 >>)
     @@ ("mall" :> << 109, 97, 108, 108 >>)
     @@ ("market" :> << 109, 97, 114, 107, 101, 116 >>)
     @@ ("market facility" :> << 109, 97, 114, 107, 101, 116, 32, 102, 97, 99, 105, 108, 105, 116, 121 >>)
     @@ ("masjid" :> << 109, 97, 115, 106, 105, 100 >>)
     @@ ("meadow" :> << 109, 101, 97, 100, 111, 119 >>)
     @@ ("mosque" :> << 109, 111, 115, 113, 117, 101 >>)
     @@ ("mrt" :> << 109, 114, 116 >>)
     @@ ("narsis" :> << 110, 97, 114, 115, 105, 115 >>)
     @@ ("no" :> << 110, 111 >>)
     @@ ("park" :> << 112, 97, 114, 107 >>)
     @@ ("parking" :> << 112, 97, 114, 107, 105, 110, 103 >>)
     @@ ("pasar" :> << 112, 97, 115, 97, 114 >>)
     @@ ("path" :> << 112, 97, 116, 104 >>)
     @@ ("paud" :> << 112, 97, 117, 100 >>)
     @@ ("pedestrian" :> << 112, 101, 100, 101, 115, 116, 114, 105, 97, 110 >>)
     @@ ("perpustakaan" :> << 112, 101, 114, 112, 117, 115, 116, 97, 107, 97, 97, 110 >>)
     @@ ("pertamina" :> << 112, 101, 114, 116, 97, 109, 105, 110, 97 >>)
     @@ ("petrol" :> << 112, 101, 116, 114, 111, 108 >>)
     @@ ("petrol_station" :> << 112, 101, 116, 114, 111, 108, 95, 115, 116, 97, 116, 105, 111, 110 >>)
     @@ ("pharmacy" :> << 112, 104, 97, 114, 109, 97, 99, 121 >>)
     @@ ("place_of_worship" :> << 112, 108, 97, 99, 101, 95, 111, 102, 95, 119, 111, 114, 115, 104, 105, 112 >>)
     @@ ("platform" :> << 112, 108, 97, 116, 102, 111, 114, 109 >>)
     @@ ("playground" :> << 112, 108, 97, 121, 103, 114, 111, 117, 110, 100 >>)
     @@ ("plaza" :> << 112, 108, 97, 122, 97 >>)
     @@ ("polda" :> << 112, 111, 108, 100, 97 >>)
     @@ ("poli" :> << 112, 111, 108, 105 >>)
     @@ ("police" :> << 112, 111, 108, 105, 99, 101 >>)
     @@ ("police facility" :> << 112, 111, 108, 105, 99, 101, 32, 102, 97, 99, 105, 108, 105, 116, 121 >>)
     @@ ("polisi" :> << 112, 111, 108, 105, 115, 105 >>)
     @@ ("polres" :> << 112, 111, 108, 114, 101, 115 >>)
     @@ ("polsek" :> << 112, 111, 108, 115, 101, 107 >>)
     @@ ("pom bensin" :> << 112, 111, 109, 32, 98, 101, 110, 115, 105, 110 >>)
     @@ ("pp" :> << 112, 112 >>)
     @@ ("pub" :> << 112, 117, 98 >>)
     @@ ("pura" :> << 112, 117, 114, 97 >>)
     @@ ("pusat" :> << 112, 117, 115, 97, 116 >>)
     @@ ("pusat komunitas" :> << 112, 117, 115, 97, 116, 32, 107, 111, 109, 117, 110, 105, 116, 97, 115 >>)
     @@ ("puskesmas" :> << 112, 117, 115, 107, 101, 115, 109, 97, 115 >>)
     @@ ("recreation" :> << 114, 101, 99, 114, 101, 97, 116, 105, 111, 110 >>)
     @@ ("recreation facility" :> << 114, 101, 99, 114, 101, 97, 116, 105, 111, 110, 32, 102, 97, 99, 105, 108, 105, 116, 121 >>)
     @@ ("religious" :> << 114, 101, 108, 105, 103, 105, 111, 117, 115 >>)
     @@ ("religious facility" :> << 114, 101, 108, 105, 103, 105, 111, 117, 115, 32, 102, 97, 99, 105, 108, 105, 116, 121 >>)
     @@ ("restaurant" :> << 114, 101, 115, 116, 97, 117, 114, 97, 110, 116 >>)
     @@ ("rs " :> << 114, 115, 32 >>)
     @@ ("rsud" :> << 114, 115, 117, 100 >>)
     @@ ("rumah sakit" :> << 114, 117, 109, 97, 104, 32, 115, 97, 107, 105, 116 >>)
     @@ ("safety" :> << 115, 97, 102, 101, 116, 121 >>)
     @@ ("safety facility" :> << 115, 97, 102, 101, 116, 121, 32, 102, 97, 99, 105, 108, 105, 116, 121 >>)
     @@ ("satlantas" :> << 115, 97, 116, 108, 97, 110, 116, 97, 115 >>)
     @@ ("satpol" :> << 115, 97, 116, 112, 111, 108 >>)
     @@ ("school" :> << 115, 99, 104, 111, 111, 108 >>)
     @@ ("sd" :> << 115, 100 >>)
     @@ ("sd " :> << 115, 100, 32 >>)
     @@ ("sekolah" :> << 115, 101, 107, 111, 108, 97, 104 >>)
     @@ ("service_station" :> << 115, 101, 114, 118, 105, 99, 101, 95, 115, 116, 97, 116, 105, 111, 110 >>)
     @@ ("shell" :> << 115, 104, 101, 108, 108 >>)
     @@ ("shop" :> << 115, 104, 111, 112 >>)
     @@ ("sidewalk" :> << 115, 105, 100, 101, 119, 97, 108, 107 >>)
     @@ ("sma" :> << 115, 109, 97 >>)
     @@ ("smk" :> << 115, 109, 107 >>)
     @@ ("smp" :> << 115, 109, 112 >>)
     @@ ("solar" :> << 115, 111, 108, 97, 114 >>)
     @@ ("spbu" :> << 115, 112, 98, 117 >>)
     @@ ("sports_centre" :> << 115, 112, 111, 114, 116, 115, 95, 99, 101, 110, 116, 114, 101 >>)
     @@ ("stasiun" :> << 115, 116, 97, 115, 105, 117, 110 >>)
     @@ ("station" :> << 115, 116, 97, 116, 105, 111, 110 >>)
     @@ ("steps" :> << 115, 116, 101, 112, 115 >>)
     @@ ("stop_position" :> << 115, 116, 111, 112, 95, 112, 111, 115, 105, 116, 105, 111, 110 >>)
     @@ ("store" :> << 115, 116, 111, 114, 101 >>)
     @@ ("street_lamp" :> << 115, 116, 114, 101, 101, 116, 95, 108, 97, 109, 112 >>)
     @@ ("supermarket" :> << 115, 117, 112, 101, 114, 109, 97, 114, 107, 101, 116 >>)
     @@ ("surveillance" :> << 115, 117, 114, 118, 101, 105, 108, 108, 97, 110, 99, 101 >>)
     @@ ("swimming" :> << 115, 119, 105, 109, 109, 105, 110, 103 >>)
     @@ ("swimming_pool" :> << 115, 119, 105, 109, 109, 105, 110, 103, 95, 112, 111, 111, 108 >>)
     @@ ("synagogue" :> << 115, 121, 110, 97, 103, 111, 103, 117, 101 >>)
     @@ ("table" :> << 116, 97, 98, 108, 101 >>)
     @@ ("taman" :> << 116, 97, 109, 97, 110 >>)
     @@ ("teater" :> << 116, 101, 97, 116, 101, 114 >>)
     @@ ("temple" :> << 116, 101, 109, 112, 108, 101 >>)
     @@ ("terminal" :> << 116, 101, 114, 109, 105, 110, 97, 108 >>)
     @@ ("theatre" :> << 116, 104, 101, 97, 116, 114, 101 >>)
     @@ ("tk" :> << 116, 107 >>)
     @@ ("toilets" :> << 116, 111, 105, 108, 101, 116, 115 >>)
     @@ ("toko" :> << 116, 111, 107, 111 >>)
     @@ ("traffic_signals" :> << 116, 114, 97, 102, 102, 105, 99, 95, 115, 105, 103, 110, 97, 108, 115 >>)
     @@ ("tram_stop" :> << 116, 114, 97, 109, 95, 115, 116, 111, 112 >>)
     @@ ("transjakarta" :> << 116, 114, 97, 110, 115, 106, 97, 107, 97, 114, 116, 97 >>)
     @@ ("transport" :> << 116, 114, 97, 110, 115, 112, 111, 114, 116 >>)
     @@ ("transport facility" :> << 116, 114, 97, 110, 115, 112, 111, 114, 116, 32, 102, 97, 99, 105, 108, 105, 116, 121 >>)
     @@ ("tree_row" :> << 116, 114, 101, 101, 95, 114, 111, 119 >>)
     @@ ("uncontrolled" :> << 117, 110, 99, 111, 110, 116, 114, 111, 108, 108, 101, 100 >>)
     @@ ("univ" :> << 117, 110, 105, 118 >>)
     @@ ("universitas" :> << 117, 110, 105, 118, 101, 114, 115, 105, 116, 97, 115 >>)
     @@ ("university" :> << 117, 110, 105, 118, 101, 114, 115, 105, 116, 121 >>)
     @@ ("up" :> << 117, 112 >>)
     @@ ("veterinary" :> << 118, 101, 116, 101, 114, 105, 110, 97, 114, 121 >>)
     @@ ("vihara" :> << 118, 105, 104, 97, 114, 97 >>)
     @@ ("walkability" :> << 119, 97, 108, 107, 97, 98, 105, 108, 105, 116, 121 >>)
     @@ ("walkability facility" :> << 119, 97, 108, 107, 97, 98, 105, 108, 105, 116, 121, 32, 102, 97, 99, 105, 108, 105, 116, 121 >>)
     @@ ("walking" :> << 119, 97, 108, 107, 105, 110, 103 >>)
     @@ ("warung" :> << 119, 97, 114, 117, 110, 103 >>)
     @@ ("yes" :> << 121, 101, 115 >>)
     @@ ("zebra" :> << 122, 101, 98, 114, 97 >>)
     @@ ("Failed to fetch" :> << 70, 97, 105, 108, 101, 100, 32, 116, 111, 32, 102, 101, 116, 99, 104 >>)
     @@ ("HTTP error! status: " :> << 72, 84, 84, 80, 32, 101, 114, 114, 111, 114, 33, 32, 115, 116, 97, 116, 117, 115, 58, 32 >>)
     @@ ("429" :> << 52, 50, 57 >>)
     @@ ("Cannot read properties of undefined (reading 'map')" :> << 67, 97, 110, 110, 111, 116, 32, 114, 101, 97, 100, 32, 112, 114, 111, 112, 101, 114, 116, 105, 101, 115, 32, 111, 102, 32, 117, 110, 100, 101, 102, 105, 110, 101, 100, 32, 40, 114, 101, 97, 100, 105, 110, 103, 32, 39, 109, 97, 112, 39, 41 >>)
     @@ ("universitas medika" :> << 117, 110, 105, 118, 101, 114, 115, 105, 116, 97, 115, 32, 109, 101, 100, 105, 107, 97 >>)
     @@ ("Pustaka" :> << 80, 117, 115, 116, 97, 107, 97 >>)
     @@ ("SD Pustaka" :> << 83, 68, 32, 80, 117, 115, 116, 97, 107, 97 >>)
     @@ ("Sekolah Polisi" :> << 83, 101, 107, 111, 108, 97, 104, 32, 80, 111, 108, 105, 115, 105 >>)

\* Math.pow(b / 1000, rate / 100) in units of 1e-6, for b in 0..1000 (entry b + 1).
PowMicro ==
        (60 :> <<
            0, 15849, 24022, 30639, 36411, 41628, 46440, 50940, 55189, 59231, 63096, 66809, 70390,
            73853, 77211, 80474, 83651, 86750, 89777, 92737, 95635, 98476, 101264, 104001, 106691,
            109336, 111940, 114503, 117029, 119520, 121976, 124399, 126791, 129154, 131488, 133795,
            136076, 138331, 140563, 142771, 144956, 147120, 149262, 151384, 153487, 155571, 157636,
            159683, 161713, 163726, 165723, 167703, 169669, 171619, 173555, 175476, 177383, 179277,
            181158, 183025, 184880, 186723, 188554, 190373, 192180, 193976, 195761, 197535, 199299,
            201052, 202796, 204529, 206253, 207967, 209671, 211367, 213053, 214731, 216400, 218060,
            219712, 221356, 222992, 224619, 226239, 227851, 229456, 231053, 232643, 234225, 235801,
            237369, 238931, 240486, 242034, 243576, 245111, 246640, 248162, 249678, 251189, 252693,
            254191, 255683, 257170, 258651, 260126, 261595, 263060, 264518, 265972, 267420, 268863,
            270301, 271733, 273161, 274584, 276002, 277415, 278823, 280226, 281625, 283019, 284409,
            285794, 287175, 288551, 289923, 291290, 292654, 294013, 295368, 296718, 298065, 299408,
            300746, 302081, 303412, 304739, 306062, 307381, 308696, 310008, 311316, 312621, 313921,
            315219, 316512, 317802, 319089, 320372, 321652, 322928, 324201, 325471, 326738, 328001,
            329261, 330517, 331771, 333021, 334269, 335513, 336754, 337992, 339227, 340459, 341688,
            342914, 344138, 345358, 346575, 347790, 349002, 350211, 351417, 352621, 353821, 355019,
            356215, 357407, 358597, 359785, 360970, 362152, 363331, 364509, 365683, 366855, 368025,
            369192, 370357, 371519, 372679, 373836, 374991, 376144, 377294, 378442, 379587, 380731,
            381872, 383011, 384147, 385281, 386414, 387543, 388671, 389797, 390920, 392041, 393160,
            394277, 395392, 396505, 397615, 398724, 399830, 400935, 402037, 403138, 404236, 405333,
            406427, 407520, 408610, 409699, 410786, 411871, 412954, 414035, 415114, 416191, 417267,
            418340, 419412, 420482, 421550, 422616, 423681, 424744, 425804, 426864, 427921, 428977,
            430031, 431083, 432134, 433183, 434230, 435275, 436319, 437361, 438402, 439441, 440478,
            441513, 442547, 443580, 444611, 445640, 446667, 447693, 448718, 449741, 450762, 451782,
            452800, 453817, 454832, 455846, 456858, 457869, 458878, 459886, 460892, 461897, 462901,
            463903, 464903, 465902, 466900, 467896, 468891, 469884, 470876, 471867, 472856, 473844,
            474831, 475816, 476800, 477782, 478763, 479743, 480721, 481698, 482674, 483648, 484622,
            485593, 486564, 487533, 488501, 489468, 490433, 491397, 492360, 493322, 494282, 495241,
            496199, 497156, 498112, 499066, 500019, 500971, 501921, 502871, 503819, 504766, 505712,
            506656, 507600, 508542, 509483, 510423, 511362, 512300, 513237, 514172, 515106, 516039,
            516971, 517902, 518832, 519761, 520688, 521615, 522540, 523465, 524388, 525310, 526231,
            527151, 528070, 528988, 529905, 530820, 531735, 532649, 533561, 534473, 535383, 536293,
            537201, 538109, 539015, 539920, 540825, 541728, 542631, 543532, 544432, 545332, 546230,
            547128, 548024, 548920, 549814, 550708, 551600, 552492, 553382, 554272, 555161, 556049,
            556935, 557821, 558706, 559590, 560473, 561356, 562237, 563117, 563997, 564875, 565753,
            566629, 567505, 568380, 569254, 570127, 570999, 571871, 572741, 573611, 574479, 575347,
            576214, 577080, 577945, 578809, 579673, 580536, 581397, 582258, 583118, 583977, 584836,
            585693, 586550, 587406, 588261, 589115, 589969, 590821, 591673, 592524, 593374, 594223,
            595072, 595919, 596766, 597612, 598458, 599302, 600146, 600989, 601831, 602672, 603513,
            604352, 605191, 606030, 606867, 607704, 608540, 609375, 610209, 611043, 611876, 612708,
            613539, 614370, 615200, 616029, 616857, 617685, 618512, 619338, 620163, 620988, 621812,
            622635, 623457, 624279, 625100, 625921, 626740, 627559, 628377, 629195, 630012, 630828,
            631643, 632458, 633272, 634085, 634898, 635710, 636521, 637331, 638141, 638950, 639759,
            640566, 641374, 642180, 642986, 643791, 644595, 645399, 646202, 647004, 647806, 648607,
            649408, 650207, 651006, 651805, 652603, 653400, 654196, 654992, 655787, 656582, 657376,
            658169, 658962, 659754, 660545, 661336, 662126, 662916, 663705, 664493, 665280, 666067,
            666854, 667640, 668425, 669209, 669993, 670777, 671559, 672341, 673123, 673904, 674684,
            675464, 676243, 677021, 677799, 678576, 679353, 680129, 680905, 681680, 682454, 683228,
            684001, 684774, 685546, 686317, 687088, 687858, 688628, 689397, 690166, 690934, 691701,
            692468, 693234, 694000, 694765, 695530, 696294, 697057, 697820, 698582, 699344, 700105,
            700866, 701626, 702386, 703145, 703903, 704661, 705419, 706176, 706932, 707688, 708443,
            709198, 709952, 710706, 711459, 712212, 712964, 713715, 714466, 715217, 715967, 716716,
            717465, 718213, 718961, 719709, 720455, 721202, 721948, 722693, 723438, 724182, 724926,
            725669, 726412, 727154, 727896, 728637, 729378, 730118, 730858, 731597, 732336, 733074,
            733812, 734549, 735286, 736022, 736758, 737493, 738228, 738962, 739696, 740429, 741162,
            741894, 742626, 743358, 744089, 744819, 745549, 746279, 747008, 747736, 748464, 749192,
            749919, 750646, 751372, 752098, 752823, 753548, 754272, 754996, 755719, 756442, 757165,
            757887, 758608, 759329, 760050, 760770, 761490, 762209, 762928, 763647, 764365, 765082,
            765799, 766516, 767232, 767947, 768663, 769378, 770092, 770806, 771519, 772232, 772945,
            773657, 774369, 775080, 775791, 776502, 777212, 777921, 778630, 779339, 780047, 780755,
            781462, 782169, 782876, 783582, 784288, 784993, 785698, 786402, 787107, 787810, 788513,
            789216, 789918, 790620, 791322, 792023, 792724, 793424, 794124, 794823, 795522, 796221,
            796919, 797617, 798315, 799012, 799708, 800404, 801100, 801796, 802491, 803185, 803879,
            804573, 805267, 805960, 806652, 807344, 808036, 808728, 809419, 810109, 810799, 811489,
            812179, 812868, 813557, 814245, 814933, 815620, 816307, 816994, 817680, 818366, 819052,
            819737, 820422, 821107, 821791, 822474, 823158, 823841, 824523, 825205, 825887, 826568,
            827250, 827930, 828610, 829290, 829970, 830649, 831328, 832006, 832685, 833362, 834040,
            834717, 835393, 836069, 836745, 837421, 838096, 838771, 839445, 840119, 840793, 841466,
            842139, 842812, 843484, 844156, 844828, 845499, 846170, 846840, 847510, 848180, 848850,
            849519, 850188, 850856, 851524, 852192, 852859, 853526, 854193, 854859, 855525, 856190,
            856856, 857521, 858185, 858849, 859513, 860177, 860840, 861503, 862165, 862828, 863489,
            864151, 864812, 865473, 866134, 866794, 867453, 868113, 868772, 869431, 870089, 870748,
            871405, 872063, 872720, 873377, 874033, 874690, 875346, 876001, 876656, 877311, 877966,
            878620, 879274, 879927, 880581, 881234, 881886, 882538, 883190, 883842, 884493, 885144,
            885795, 886445, 887095, 887745, 888395, 889044, 889692, 890341, 890989, 891637, 892284,
            892932, 893579, 894225, 894871, 895517, 896163, 896808, 897453, 898098, 898742, 899387,
            900030, 900674, 901317, 901960, 902603, 903245, 903887, 904528, 905170, 905811, 906452,
            907092, 907732, 908372, 909012, 909651, 910290, 910928, 911567, 912205, 912843, 913480,
            914117, 914754, 915391, 916027, 916663, 917299, 917934, 918569, 919204, 919838, 920473,
            921107, 921740, 922374, 923007, 923639, 924272, 924904, 925536, 926168, 926799, 927430,
            928061, 928691, 929321, 929951, 930581, 931210, 931839, 932468, 933097, 933725, 934353,
            934980, 935608, 936235, 936862, 937488, 938114, 938740, 939366, 939991, 940617, 941241,
            941866, 942490, 943114, 943738, 944362, 944985, 945608, 946230, 946853, 947475, 948097,
            948718, 949340, 949961, 950581, 951202, 951822, 952442, 953062, 953681, 954300, 954919,
            955538, 956156, 956774, 957392, 958009, 958627, 959244, 959861, 960477, 961093, 961709,
            962325, 962940, 963555, 964170, 964785, 965399, 966014, 966627, 967241, 967854, 968467,
            969080, 969693, 970305, 970917, 971529, 972140, 972752, 973363, 973974, 974584, 975194,
            975804, 976414, 977024, 977633, 978242, 978851, 979459, 980067, 980675, 981283, 981890,
            982498, 983105, 983711, 984318, 984924, 985530, 986136, 986741, 987347, 987952, 988556,
            989161, 989765, 990369, 990973, 991576, 992180, 992783, 993385, 993988, 994590, 995192,
            995794, 996396, 996997, 997598, 998199, 998800, 999400, 1000000 >>)
     @@ (70 :> <<
            0, 7943, 12904, 17139, 20962, 24506, 27842, 31015, 34054, 36980, 39811, 42557, 45230,
            47837, 50384, 52877, 55320, 57718, 60075, 62392, 64673, 66920, 69135, 71320, 73476,
            75606, 77711, 79791, 81848, 83884, 85898, 87893, 89868, 91825, 93764, 95686, 97591,
            99481, 101356, 103216, 105061, 106893, 108711, 110517, 112310, 114090, 115859, 117617,
            119363, 121098, 122823, 124537, 126242, 127936, 129621, 131297, 132963, 134621, 136270,
            137910, 139542, 141166, 142782, 144390, 145991, 147584, 149170, 150748, 152320, 153884,
            155442, 156993, 158538, 160076, 161608, 163133, 164653, 166167, 167674, 169176, 170672,
            172163, 173648, 175128, 176602, 178071, 179535, 180994, 182447, 183896, 185340, 186779,
            188214, 189644, 191069, 192489, 193905, 195317, 196724, 198127, 199526, 200921, 202311,
            203698, 205080, 206458, 207833, 209203, 210570, 211933, 213292, 214648, 215999, 217348,
            218692, 220033, 221371, 222705, 224036, 225363, 226687, 228008, 229325, 230639, 231950,
            233258, 234563, 235865, 237163, 238458, 239751, 241040, 242327, 243611, 244891, 246169,
            247444, 248716, 249986, 251252, 252516, 253778, 255036, 256292, 257545, 258796, 260044,
            261290, 262533, 263773, 265011, 266246, 267480, 268710, 269938, 271164, 272388, 273609,
            274827, 276044, 277258, 278470, 279679, 280887, 282092, 283295, 284496, 285694, 286891,
            288085, 289277, 290467, 291655, 292841, 294025, 295207, 296387, 297565, 298740, 299914,
            301086, 302256, 303424, 304590, 305754, 306916, 308077, 309235, 310392, 311547, 312700,
            313851, 315000, 316148, 317294, 318438, 319580, 320720, 321859, 322996, 324131, 325265,
            326397, 327527, 328656, 329783, 330908, 332031, 333153, 334274, 335393, 336510, 337625,
            338739, 339852, 340963, 342072, 343180, 344286, 345391, 346494, 347596, 348696, 349795,
            350892, 351988, 353082, 354175, 355267, 356357, 357445, 358532, 359618, 360702, 361785,
            362867, 363947, 365026, 366103, 367180, 368254, 369328, 370400, 371471, 372540, 373608,
            374675, 375740, 376805, 377868, 378929, 379990, 381049, 382106, 383163, 384218, 385272,
            386325, 387377, 388427, 389477, 390525, 391571, 392617, 393661, 394705, 395747, 396787,
            397827, 398866, 399903, 400939, 401974, 403008, 404041, 405073, 406103, 407133, 408161,
            409188, 410214, 411239, 412263, 413286, 414308, 415328, 416348, 417366, 418384, 419400,
            420415, 421430, 422443, 423455, 424466, 425476, 426485, 427493, 428501, 429507, 430512,
            431516, 432519, 433521, 434522, 435522, 436521, 437519, 438516, 439512, 440507, 441502,
            442495, 443487, 444478, 445469, 446458, 447447, 448434, 449421, 450407, 451392, 452376,
            453359, 454341, 455322, 456302, 457281, 458260, 459237, 460214, 461190, 462165, 463139,
            464112, 465084, 466055, 467026, 467996, 468964, 469932, 470899, 471866, 472831, 473795,
            474759, 475722, 476684, 477645, 478606, 479565, 480524, 481482, 482439, 483395, 484351,
            485305, 486259, 487212, 488164, 489116, 490067, 491016, 491965, 492914, 493861, 494808,
            495754, 496699, 497644, 498587, 499530, 500472, 501414, 502354, 503294, 504233, 505172,
            506109, 507046, 507982, 508918, 509852, 510786, 511719, 512652, 513584, 514515, 515445,
            516374, 517303, 518231, 519159, 520086, 521012, 521937, 522861, 523785, 524709, 525631,
            526553, 527474, 528394, 529314, 530233, 531152, 532069, 532986, 533903, 534818, 535733,
            536648, 537561, 538474, 539387, 540298, 541209, 542120, 543029, 543939, 544847, 545755,
            546662, 547568, 548474, 549379, 550284, 551188, 552091, 552994, 553896, 554797, 555698,
            556598, 557497, 558396, 559294, 560192, 561089, 561986, 562881, 563777, 564671, 565565,
            566458, 567351, 568243, 569135, 570026, 570916, 571806, 572695, 573584, 574472, 575359,
            576246, 577132, 578018, 578903, 579788, 580671, 581555, 582438, 583320, 584201, 585082,
            585963, 586843, 587722, 588601, 589479, 590357, 591234, 592111, 592987, 593862, 594737,
            595611, 596485, 597358, 598231, 599103, 599975, 600846, 601716, 602586, 603456, 604325,
            605193, 606061, 606928, 607795, 608661, 609527, 610392, 611257, 612121, 612984, 613848,
            614710, 615572, 616434, 617295, 618155, 619015, 619875, 620734, 621592, 622450, 623308,
            624165, 625021, 625877, 626732, 627587, 628442, 629296, 630149, 631002, 631855, 632707,
            633558, 634409, 635260, 636110, 636959, 637808, 638657, 639505, 640352, 641199, 642046,
            642892, 643738, 644583, 645428, 646272, 647116, 647959, 648802, 649644, 650486, 651328,
            652169, 653009, 653849, 654689, 655528, 656366, 657205, 658042, 658880, 659717, 660553,
            661389, 662224, 663059, 663894, 664728, 665562, 666395, 667228, 668060, 668892, 669723,
            670554, 671385, 672215, 673045, 673874, 674703, 675531, 676359, 677186, 678013, 678840,
            679666, 680492, 681317, 682142, 682967, 683791, 684614, 685438, 686260, 687083, 687905,
            688726, 689547, 690368, 691188, 692008, 692828, 693647, 694465, 695283, 696101, 696919,
            697736, 698552, 699368, 700184, 700999, 701814, 702629, 703443, 704256, 705070, 705883,
            706695, 707507, 708319, 709130, 709941, 710752, 711562, 712371, 713181, 713990, 714798,
            715606, 716414, 717221, 718028, 718835, 719641, 720447, 721252, 722057, 722862, 723666,
            724470, 725274, 726077, 726880, 727682, 728484, 729286, 730087, 730888, 731688, 732488,
            733288, 734087, 734886, 735685, 736483, 737281, 738078, 738876, 739672, 740469, 741265,
            742060, 742856, 743651, 744445, 745239, 746033, 746827, 747620, 748412, 749205, 749997,
            750789, 751580, 752371, 753161, 753952, 754742, 755531, 756320, 757109, 757898, 758686,
            759474, 760261, 761048, 761835, 762621, 763407, 764193, 764978, 765763, 766548, 767332,
            768116, 768900, 769683, 770466, 771249, 772031, 772813, 773594, 774376, 775156, 775937,
            776717, 777497, 778277, 779056, 779835, 780613, 781392, 782169, 782947, 783724, 784501,
            785278, 786054, 786830, 787605, 788381, 789156, 789930, 790705, 791478, 792252, 793025,
            793798, 794571, 795343, 796115, 796887, 797658, 798430, 799200, 799971, 800741, 801511,
            802280, 803049, 803818, 804587, 805355, 806123, 806890, 807658, 808424, 809191, 809957,
            810723, 811489, 812255, 813020, 813784, 814549, 815313, 816077, 816841, 817604, 818367,
            819129, 819892, 820654, 821415, 822177, 822938, 823699, 824459, 825220, 825979, 826739,
            827498, 828257, 829016, 829775, 830533, 831291, 832048, 832805, 833562, 834319, 835075,
            835831, 836587, 837343, 838098, 838853, 839607, 840362, 841116, 841869, 842623, 843376,
            844129, 844881, 845634, 846386, 847137, 847889, 848640, 849391, 850142, 850892, 851642,
            852392, 853141, 853890, 854639, 855388, 856136, 856884, 857632, 858379, 859127, 859873,
            860620, 861366, 862113, 862858, 863604, 864349, 865094, 865839, 866583, 867327, 868071,
            868815, 869558, 870301, 871044, 871787, 872529, 873271, 874013, 874754, 875495, 876236,
            876977, 877717, 878457, 879197, 879937, 880676, 881415, 882154, 882892, 883631, 884369,
            885106, 885844, 886581, 887318, 888055, 888791, 889527, 890263, 890999, 891734, 892469,
            893204, 893939, 894673, 895407, 896141, 896874, 897608, 898341, 899074, 899806, 900538,
            901270, 902002, 902734, 903465, 904196, 904927, 905657, 906387, 907117, 907847, 908577,
            909306, 910035, 910764, 911492, 912220, 912948, 913676, 914403, 915131, 915858, 916584,
            917311, 918037, 918763, 919489, 920215, 920940, 921665, 922390, 923114, 923838, 924562,
            925286, 926010, 926733, 927456, 928179, 928902, 929624, 930346, 931068, 931790, 932511,
            933232, 933953, 934674, 935394, 936115, 936834, 937554, 938274, 938993, 939712, 940431,
            941149, 941868, 942586, 943304, 944021, 944739, 945456, 946173, 946889, 947606, 948322,
            949038, 949754, 950469, 951185, 951900, 952614, 953329, 954043, 954758, 955471, 956185,
            956899, 957612, 958325, 959038, 959750, 960462, 961175, 961886, 962598, 963309, 964021,
            964732, 965442, 966153, 966863, 967573, 968283, 968993, 969702, 970411, 971120, 971829,
            972538, 973246, 973954, 974662, 975369, 976077, 976784, 977491, 978198, 978904, 979611,
            980317, 981023, 981728, 982434, 983139, 983844, 984549, 985253, 985958, 986662, 987366,
            988069, 988773, 989476, 990179, 990882, 991585, 992287, 992989, 993691, 994393, 995095,
            995796, 996497, 997198, 997899, 998600, 999300, 1000000 >>)
     @@ (75 :> <<
            0, 5623, 9457, 12819, 15905, 18803, 21558, 24200, 26750, 29220, 31623, 33966, 36257,
            38500, 40700, 42862, 44987, 47080, 49142, 51176, 53183, 55165, 57124, 59060, 60976,
            62872, 64749, 66607, 68449, 70275, 72084, 73879, 75659, 77426, 79179, 80919, 82647,
            84363, 86067, 87760, 89443, 91115, 92776, 94428, 96070, 97703, 99327, 100942, 102549,
            104147, 105737, 107319, 108894, 110460, 112020, 113572, 115117, 116656, 118187, 119712,
            121231, 122743, 124249, 125749, 127243, 128732, 130214, 131691, 133162, 134628, 136089,
            137545, 138995, 140440, 141881, 143316, 144747, 146173, 147595, 149012, 150424, 151832,
            153236, 154635, 156030, 157422, 158809, 160191, 161570, 162946, 164317, 165684, 167048,
            168408, 169764, 171117, 172466, 173812, 175154, 176493, 177828, 179160, 180489, 181814,
            183137, 184456, 185772, 187085, 188394, 189701, 191005, 192306, 193604, 194899, 196191,
            197480, 198767, 200050, 201331, 202610, 203885, 205158, 206429, 207696, 208961, 210224,
            211484, 212742, 213997, 215250, 216500, 217748, 218993, 220236, 221477, 222715, 223952,
            225186, 226417, 227647, 228874, 230099, 231322, 232542, 233761, 234977, 236192, 237404,
            238614, 239822, 241029, 242233, 243435, 244635, 245833, 247029, 248224, 249416, 250607,
            251795, 252982, 254167, 255350, 256532, 257711, 258889, 260064, 261239, 262411, 263582,
            264750, 265918, 267083, 268247, 269409, 270569, 271728, 272885, 274041, 275195, 276347,
            277497, 278646, 279794, 280940, 282084, 283227, 284368, 285508, 286646, 287783, 288918,
            290052, 291184, 292315, 293444, 294572, 295699, 296824, 297948, 299070, 300191, 301310,
            302428, 303545, 304660, 305774, 306886, 307998, 309108, 310216, 311323, 312429, 313534,
            314637, 315739, 316840, 317940, 319038, 320135, 321231, 322325, 323418, 324510, 325601,
            326691, 327779, 328866, 329952, 331037, 332121, 333203, 334284, 335364, 336443, 337521,
            338598, 339673, 340748, 341821, 342893, 343964, 345034, 346102, 347170, 348237, 349302,
            350367, 351430, 352492, 353553, 354614, 355673, 356731, 357788, 358844, 359898, 360952,
            362005, 363057, 364108, 365158, 366206, 367254, 368301, 369347, 370392, 371436, 372478,
            373520, 374561, 375601, 376640, 377678, 378715, 379752, 380787, 381821, 382854, 383887,
            384918, 385949, 386978, 388007, 389035, 390062, 391088, 392113, 393137, 394161, 395183,
            396205, 397226, 398245, 399264, 400282, 401300, 402316, 403332, 404346, 405360, 406373,
            407385, 408396, 409407, 410417, 411425, 412433, 413441, 414447, 415452, 416457, 417461,
            418464, 419466, 420468, 421469, 422469, 423468, 424466, 425464, 426460, 427456, 428452,
            429446, 430440, 431433, 432425, 433416, 434407, 435397, 436386, 437375, 438362, 439349,
            440335, 441321, 442306, 443290, 444273, 445255, 446237, 447218, 448199, 449178, 450157,
            451136, 452113, 453090, 454066, 455042, 456016, 456990, 457964, 458936, 459908, 460880,
            461850, 462820, 463789, 464758, 465726, 466693, 467660, 468626, 469591, 470555, 471519,
            472483, 473445, 474407, 475369, 476329, 477289, 478249, 479207, 480165, 481123, 482080,
            483036, 483991, 484946, 485901, 486854, 487807, 488760, 489712, 490663, 491613, 492563,
            493513, 494462, 495410, 496357, 497304, 498251, 499196, 500141, 501086, 502030, 502973,
            503916, 504858, 505800, 506741, 507681, 508621, 509561, 510499, 511437, 512375, 513312,
            514248, 515184, 516119, 517054, 517988, 518922, 519855, 520787, 521719, 522651, 523582,
            524512, 525442, 526371, 527299, 528227, 529155, 530082, 531008, 531934, 532860, 533784,
            534709, 535633, 536556, 537478, 538401, 539322, 540243, 541164, 542084, 543004, 543923,
            544841, 545759, 546677, 547594, 548510, 549426, 550342, 551257, 552171, 553085, 553998,
            554911, 555824, 556736, 557647, 558558, 559469, 560379, 561288, 562197, 563105, 564013,
            564921, 565828, 566734, 567641, 568546, 569451, 570356, 571260, 572164, 573067, 573969,
            574872, 575773, 576675, 577576, 578476, 579376, 580275, 581174, 582073, 582971, 583868,
            584765, 585662, 586558, 587454, 588349, 589244, 590138, 591032, 591926, 592819, 593711,
            594604, 595495, 596386, 597277, 598168, 599058, 599947, 600836, 601725, 602613, 603500,
            604388, 605275, 606161, 607047, 607933, 608818, 609702, 610587, 611471, 612354, 613237,
            614119, 615002, 615883, 616765, 617646, 618526, 619406, 620286, 621165, 622044, 622922,
            623800, 624678, 625555, 626432, 627308, 628184, 629059, 629934, 630809, 631683, 632557,
            633431, 634304, 635177, 636049, 636921, 637792, 638663, 639534, 640404, 641274, 642144,
            643013, 643882, 644750, 645618, 646486, 647353, 648220, 649086, 649952, 650818, 651683,
            652548, 653412, 654276, 655140, 656003, 656866, 657729, 658591, 659453, 660315, 661176,
            662036, 662897, 663757, 664616, 665476, 666334, 667193, 668051, 668909, 669766, 670623,
            671480, 672336, 673192, 674048, 674903, 675758, 676612, 677466, 678320, 679174, 680027,
            680879, 681732, 682584, 683435, 684287, 685137, 685988, 686838, 687688, 688538, 689387,
            690236, 691084, 691932, 692780, 693627, 694475, 695321, 696168, 697014, 697859, 698705,
            699550, 700395, 701239, 702083, 702927, 703770, 704613, 705456, 706298, 707140, 707982,
            708823, 709664, 710505, 711345, 712185, 713025, 713864, 714703, 715542, 716380, 717218,
            718056, 718893, 719730, 720567, 721403, 722240, 723075, 723911, 724746, 725581, 726415,
            727249, 728083, 728917, 729750, 730583, 731415, 732248, 733080, 733911, 734742, 735573,
            736404, 737235, 738065, 738894, 739724, 740553, 741382, 742210, 743038, 743866, 744694,
            745521, 746348, 747175, 748001, 748827, 749653, 750479, 751304, 752129, 752953, 753777,
            754601, 755425, 756248, 757071, 757894, 758717, 759539, 760361, 761182, 762003, 762824,
            763645, 764465, 765286, 766105, 766925, 767744, 768563, 769382, 770200, 771018, 771836,
            772653, 773471, 774287, 775104, 775920, 776736, 777552, 778368, 779183, 779998, 780812,
            781627, 782441, 783254, 784068, 784881, 785694, 786507, 787319, 788131, 788943, 789755,
            790566, 791377, 792187, 792998, 793808, 794618, 795428, 796237, 797046, 797855, 798663,
            799471, 800279, 801087, 801894, 802702, 803508, 804315, 805121, 805927, 806733, 807539,
            808344, 809149, 809954, 810758, 811562, 812366, 813170, 813973, 814776, 815579, 816382,
            817184, 817986, 818788, 819590, 820391, 821192, 821993, 822793, 823594, 824394, 825193,
            825993, 826792, 827591, 828390, 829188, 829986, 830784, 831582, 832379, 833177, 833973,
            834770, 835567, 836363, 837159, 837954, 838750, 839545, 840340, 841134, 841929, 842723,
            843517, 844310, 845104, 845897, 846690, 847483, 848275, 849067, 849859, 850651, 851442,
            852233, 853024, 853815, 854605, 855396, 856186, 856975, 857765, 858554, 859343, 860132,
            860920, 861709, 862497, 863284, 864072, 864859, 865646, 866433, 867220, 868006, 868792,
            869578, 870364, 871149, 871934, 872719, 873504, 874288, 875073, 875857, 876640, 877424,
            878207, 878990, 879773, 880556, 881338, 882120, 882902, 883684, 884465, 885246, 886027,
            886808, 887589, 888369, 889149, 889929, 890709, 891488, 892267, 893046, 893825, 894603,
            895381, 896159, 896937, 897715, 898492, 899269, 900046, 900823, 901599, 902376, 903152,
            903927, 904703, 905478, 906253, 907028, 907803, 908578, 909352, 910126, 910900, 911673,
            912447, 913220, 913993, 914765, 915538, 916310, 917082, 917854, 918626, 919397, 920168,
            920939, 921710, 922481, 923251, 924021, 924791, 925561, 926330, 927099, 927869, 928637,
            929406, 930174, 930943, 931711, 932478, 933246, 934013, 934781, 935547, 936314, 937081,
            937847, 938613, 939379, 940145, 940910, 941676, 942441, 943205, 943970, 944735, 945499,
            946263, 947027, 947790, 948554, 949317, 950080, 950843, 951605, 952368, 953130, 953892,
            954654, 955415, 956177, 956938, 957699, 958460, 959220, 959981, 960741, 961501, 962261,
            963020, 963780, 964539, 965298, 966057, 966815, 967573, 968332, 969090, 969847, 970605,
            971362, 972120, 972877, 973633, 974390, 975146, 975903, 976659, 977415, 978170, 978926,
            979681, 980436, 981191, 981945, 982700, 983454, 984208, 984962, 985716, 986469, 987223,
            987976, 988729, 989482, 990234, 990986, 991739, 992491, 993242, 993994, 994745, 995497,
            996248, 996998, 997749, 998500, 999250, 1000000 >>)
     @@ (80 :> <<
            0, 3981, 6931, 9587, 12068, 14427, 16692, 18883, 21012, 23088, 25119, 27109, 29063,
            30985, 32878, 34743, 36584, 38402, 40199, 41976, 43734, 45475, 47200, 48908, 50602,
            52282, 53948, 55602, 57244, 58873, 60492, 62100, 63697, 65285, 66863, 68431, 69991,
            71542, 73085, 74619, 76146, 77665, 79177, 80682, 82179, 83670, 85154, 86632, 88103,
            89569, 91028, 92482, 93930, 95372, 96809, 98240, 99667, 101088, 102504, 103916, 105322,
            106724, 108122, 109515, 110903, 112287, 113667, 115043, 116415, 117782, 119146, 120505,
            121861, 123213, 124562, 125907, 127248, 128586, 129920, 131251, 132578, 133902, 135223,
            136541, 137855, 139167, 140475, 141780, 143082, 144382, 145678, 146971, 148262, 149550,
            150835, 152117, 153397, 154674, 155948, 157220, 158489, 159756, 161020, 162282, 163541,
            164798, 166052, 167304, 168554, 169801, 171046, 172289, 173530, 174768, 176005, 177239,
            178470, 179700, 180928, 182154, 183377, 184599, 185818, 187036, 188251, 189465, 190676,
            191886, 193094, 194300, 195504, 196706, 197906, 199105, 200301, 201496, 202689, 203881,
            205071, 206258, 207445, 208629, 209812, 210993, 212173, 213351, 214527, 215702, 216875,
            218046, 219216, 220385, 221552, 222717, 223881, 225043, 226204, 227363, 228521, 229677,
            230832, 231985, 233137, 234288, 235437, 236585, 237731, 238876, 240020, 241162, 242303,
            243443, 244581, 245718, 246854, 247988, 249121, 250253, 251383, 252512, 253640, 254767,
            255892, 257016, 258139, 259261, 260382, 261501, 262619, 263736, 264852, 265966, 267080,
            268192, 269303, 270413, 271522, 272630, 273736, 274842, 275946, 277049, 278151, 279252,
            280352, 281451, 282549, 283646, 284741, 285836, 286930, 288022, 289114, 290204, 291294,
            292382, 293470, 294556, 295641, 296726, 297809, 298892, 299973, 301054, 302133, 303212,
            304289, 305366, 306442, 307516, 308590, 309663, 310735, 311806, 312876, 313946, 315014,
            316081, 317148, 318213, 319278, 320342, 321405, 322467, 323528, 324588, 325648, 326706,
            327764, 328821, 329877, 330932, 331987, 333040, 334093, 335145, 336196, 337246, 338295,
            339344, 340391, 341438, 342485, 343530, 344575, 345618, 346661, 347703, 348745, 349786,
            350825, 351864, 352903, 353940, 354977, 356013, 357049, 358083, 359117, 360150, 361182,
            362214, 363245, 364275, 365304, 366333, 367361, 368388, 369415, 370440, 371465, 372490,
            373513, 374536, 375559, 376580, 377601, 378621, 379641, 380660, 381678, 382695, 383712,
            384728, 385744, 386759, 387773, 388786, 389799, 390811, 391822, 392833, 393843, 394853,
            395862, 396870, 397878, 398885, 399891, 400897, 401902, 402906, 403910, 404913, 405916,
            406918, 407919, 408920, 409920, 410919, 411918, 412917, 413914, 414911, 415908, 416904,
            417899, 418894, 419888, 420881, 421874, 422867, 423858, 424850, 425840, 426830, 427820,
            428809, 429797, 430785, 431772, 432759, 433745, 434730, 435715, 436699, 437683, 438667,
            439649, 440632, 441613, 442594, 443575, 444555, 445534, 446513, 447492, 448469, 449447,
            450424, 451400, 452376, 453351, 454325, 455300, 456273, 457246, 458219, 459191, 460163,
            461134, 462104, 463074, 464044, 465013, 465981, 466949, 467917, 468884, 469850, 470817,
            471782, 472747, 473712, 474676, 475639, 476602, 477565, 478527, 479489, 480450, 481410,
            482371, 483330, 484290, 485248, 486207, 487164, 488122, 489079, 490035, 490991, 491946,
            492901, 493856, 494810, 495764, 496717, 497669, 498622, 499574, 500525, 501476, 502426,
            503376, 504326, 505275, 506223, 507172, 508119, 509067, 510014, 510960, 511906, 512852,
            513797, 514742, 515686, 516630, 517573, 518516, 519459, 520401, 521342, 522284, 523224,
            524165, 525105, 526044, 526984, 527922, 528861, 529799, 530736, 531673, 532610, 533546,
            534482, 535417, 536352, 537287, 538221, 539155, 540088, 541021, 541954, 542886, 543818,
            544749, 545680, 546611, 547541, 548471, 549400, 550329, 551258, 552186, 553114, 554042,
            554969, 555895, 556822, 557747, 558673, 559598, 560523, 561447, 562371, 563295, 564218,
            565141, 566064, 566986, 567907, 568829, 569750, 570670, 571591, 572511, 573430, 574349,
            575268, 576186, 577104, 578022, 578939, 579856, 580773, 581689, 582605, 583521, 584436,
            585350, 586265, 587179, 588093, 589006, 589919, 590832, 591744, 592656, 593568, 594479,
            595390, 596300, 597211, 598120, 599030, 599939, 600848, 601756, 602665, 603572, 604480,
            605387, 606294, 607200, 608106, 609012, 609917, 610822, 611727, 612632, 613536, 614439,
            615343, 616246, 617149, 618051, 618953, 619855, 620757, 621658, 622558, 623459, 624359,
            625259, 626158, 627057, 627956, 628855, 629753, 630651, 631549, 632446, 633343, 634239,
            635136, 636032, 636927, 637823, 638718, 639612, 640507, 641401, 642295, 643188, 644081,
            644974, 645867, 646759, 647651, 648542, 649434, 650325, 651215, 652106, 652996, 653886,
            654775, 655664, 656553, 657442, 658330, 659218, 660106, 660993, 661880, 662767, 663654,
            664540, 665426, 666311, 667197, 668082, 668966, 669851, 670735, 671619, 672502, 673386,
            674269, 675151, 676034, 676916, 677798, 678679, 679561, 680441, 681322, 682203, 683083,
            683963, 684842, 685721, 686600, 687479, 688357, 689236, 690113, 690991, 691868, 692745,
            693622, 694499, 695375, 696251, 697126, 698002, 698877, 699752, 700626, 701501, 702375,
            703248, 704122, 704995, 705868, 706741, 707613, 708485, 709357, 710228, 711100, 711971,
            712842, 713712, 714582, 715452, 716322, 717192, 718061, 718930, 719798, 720667, 721535,
            722403, 723270, 724138, 725005, 725872, 726738, 727605, 728471, 729336, 730202, 731067,
            731932, 732797, 733662, 734526, 735390, 736254, 737117, 737980, 738844, 739706, 740569,
            741431, 742293, 743155, 744016, 744878, 745739, 746599, 747460, 748320, 749180, 750040,
            750899, 751759, 752618, 753476, 754335, 755193, 756051, 756909, 757767, 758624, 759481,
            760338, 761195, 762051, 762907, 763763, 764619, 765474, 766329, 767184, 768039, 768893,
            769747, 770601, 771455, 772309, 773162, 774015, 774868, 775720, 776573, 777425, 778276,
            779128, 779979, 780831, 781682, 782532, 783383, 784233, 785083, 785933, 786782, 787632,
            788481, 789330, 790178, 791027, 791875, 792723, 793570, 794418, 795265, 796112, 796959,
            797806, 798652, 799498, 800344, 801190, 802035, 802880, 803725, 804570, 805415, 806259,
            807103, 807947, 808791, 809634, 810478, 811321, 812164, 813006, 813849, 814691, 815533,
            816374, 817216, 818057, 818898, 819739, 820580, 821420, 822260, 823100, 823940, 824780,
            825619, 826458, 827297, 828136, 828975, 829813, 830651, 831489, 832326, 833164, 834001,
            834838, 835675, 836512, 837348, 838184, 839020, 839856, 840692, 841527, 842362, 843197,
            844032, 844866, 845701, 846535, 847369, 848202, 849036, 849869, 850702, 851535, 852368,
            853200, 854033, 854865, 855697, 856528, 857360, 858191, 859022, 859853, 860684, 861514,
            862345, 863175, 864004, 864834, 865664, 866493, 867322, 868151, 868980, 869808, 870636,
            871464, 872292, 873120, 873948, 874775, 875602, 876429, 877256, 878082, 878908, 879735,
            880561, 881386, 882212, 883037, 883862, 884687, 885512, 886337, 887161, 887985, 888809,
            889633, 890457, 891280, 892104, 892927, 893750, 894572, 895395, 896217, 897039, 897861,
            898683, 899504, 900326, 901147, 901968, 902789, 903609, 904430, 905250, 906070, 906890,
            907710, 908529, 909349, 910168, 910987, 911805, 912624, 913442, 914261, 915079, 915897,
            916714, 917532, 918349, 919166, 919983, 920800, 921616, 922433, 923249, 924065, 924881,
            925697, 926512, 927327, 928143, 928958, 929772, 930587, 931401, 932216, 933030, 933844,
            934657, 935471, 936284, 937097, 937910, 938723, 939536, 940348, 941161, 941973, 942785,
            943597, 944408, 945220, 946031, 946842, 947653, 948464, 949274, 950085, 950895, 951705,
            952515, 953324, 954134, 954943, 955753, 956562, 957370, 958179, 958988, 959796, 960604,
            961412, 962220, 963028, 963835, 964642, 965449, 966256, 967063, 967870, 968676, 969483,
            970289, 971095, 971901, 972706, 973512, 974317, 975122, 975927, 976732, 977537, 978341,
            979145, 979949, 980753, 981557, 982361, 983164, 983968, 984771, 985574, 986377, 987179,
            987982, 988784, 989586, 990388, 991190, 991992, 992793, 993595, 994396, 995197, 995998,
            996799, 997599, 998400, 999200, 1000000 >>)
     @@ (85 :> <<
            0, 2818, 5080, 7171, 9157, 11069, 12925, 14734, 16505, 18243, 19953, 21636, 23297,
            24937, 26559, 28163, 29751, 31324, 32884, 34430, 35965, 37487, 39000, 40501, 41993,
            43476, 44950, 46415, 47872, 49322, 50764, 52198, 53626, 55047, 56462, 57871, 59273,
            60670, 62061, 63446, 64826, 66201, 67571, 68936, 70297, 71652, 73004, 74350, 75693,
            77031, 78365, 79696, 81022, 82344, 83663, 84978, 86290, 87598, 88902, 90204, 91502,
            92796, 94088, 95376, 96661, 97944, 99223, 100499, 101773, 103044, 104312, 105577,
            106840, 108100, 109357, 110612, 111864, 113114, 114362, 115607, 116849, 118090, 119328,
            120564, 121797, 123029, 124258, 125485, 126710, 127933, 129153, 130372, 131589, 132804,
            134017, 135228, 136436, 137644, 138849, 140052, 141254, 142454, 143651, 144848, 146042,
            147235, 148426, 149615, 150803, 151989, 153174, 154356, 155538, 156717, 157895, 159072,
            160247, 161420, 162592, 163763, 164932, 166099, 167265, 168430, 169593, 170755, 171915,
            173075, 174232, 175389, 176544, 177697, 178850, 180001, 181150, 182299, 183446, 184592,
            185736, 186880, 188022, 189163, 190303, 191441, 192579, 193715, 194850, 195984, 197116,
            198248, 199378, 200507, 201636, 202763, 203888, 205013, 206137, 207260, 208381, 209502,
            210621, 211740, 212857, 213973, 215089, 216203, 217316, 218428, 219540, 220650, 221759,
            222867, 223975, 225081, 226187, 227291, 228395, 229497, 230599, 231699, 232799, 233898,
            234996, 236093, 237189, 238285, 239379, 240472, 241565, 242657, 243748, 244838, 245927,
            247015, 248103, 249189, 250275, 251360, 252444, 253528, 254610, 255692, 256773, 257853,
            258932, 260010, 261088, 262165, 263241, 264317, 265391, 266465, 267538, 268610, 269682,
            270753, 271823, 272892, 273961, 275028, 276095, 277162, 278227, 279292, 280357, 281420,
            282483, 283545, 284606, 285667, 286727, 287786, 288845, 289903, 290960, 292017, 293073,
            294128, 295182, 296236, 297289, 298342, 299394, 300445, 301496, 302546, 303595, 304644,
            305692, 306739, 307786, 308832, 309878, 310923, 311967, 313011, 314054, 315096, 316138,
            317179, 318220, 319260, 320299, 321338, 322376, 323414, 324451, 325488, 326524, 327559,
            328594, 329628, 330661, 331694, 332727, 333759, 334790, 335821, 336851, 337881, 338910,
            339939, 340967, 341994, 343021, 344047, 345073, 346098, 347123, 348147, 349171, 350194,
            351217, 352239, 353261, 354282, 355302, 356322, 357342, 358361, 359379, 360397, 361415,
            362432, 363448, 364464, 365480, 366495, 367509, 368523, 369537, 370550, 371562, 372574,
            373586, 374597, 375607, 376617, 377627, 378636, 379645, 380653, 381661, 382668, 383675,
            384681, 385687, 386692, 387697, 388702, 389706, 390709, 391712, 392715, 393717, 394719,
            395720, 396721, 397722, 398722, 399721, 400720, 401719, 402717, 403715, 404712, 405709,
            406706, 407702, 408697, 409692, 410687, 411681, 412675, 413669, 414662, 415655, 416647,
            417639, 418630, 419621, 420611, 421602, 422591, 423581, 424570, 425558, 426546, 427534,
            428521, 429508, 430495, 431481, 432467, 433452, 434437, 435421, 436405, 437389, 438373,
            439355, 440338, 441320, 442302, 443283, 444265, 445245, 446225, 447205, 448185, 449164,
            450143, 451121, 452099, 453077, 454054, 455031, 456007, 456984, 457959, 458935, 459910,
            460885, 461859, 462833, 463806, 464780, 465753, 466725, 467697, 468669, 469641, 470612,
            471582, 472553, 473523, 474492, 475462, 476431, 477399, 478368, 479336, 480303, 481271,
            482237, 483204, 484170, 485136, 486102, 487067, 488032, 488996, 489961, 490925, 491888,
            492851, 493814, 494777, 495739, 496701, 497662, 498624, 499584, 500545, 501505, 502465,
            503425, 504384, 505343, 506302, 507260, 508218, 509176, 510133, 511090, 512047, 513003,
            513959, 514915, 515871, 516826, 517781, 518735, 519689, 520643, 521597, 522550, 523503,
            524456, 525408, 526360, 527312, 528264, 529215, 530166, 531116, 532066, 533016, 533966,
            534916, 535865, 536813, 537762, 538710, 539658, 540606, 541553, 542500, 543447, 544393,
            545339, 546285, 547231, 548176, 549121, 550066, 551010, 551954, 552898, 553841, 554785,
            555728, 556670, 557613, 558555, 559497, 560438, 561380, 562321, 563262, 564202, 565142,
            566082, 567022, 567961, 568900, 569839, 570778, 571716, 572654, 573592, 574529, 575466,
            576403, 577340, 578276, 579212, 580148, 581084, 582019, 582954, 583889, 584824, 585758,
            586692, 587626, 588559, 589492, 590425, 591358, 592290, 593223, 594155, 595086, 596018,
            596949, 597880, 598810, 599741, 600671, 601601, 602530, 603460, 604389, 605318, 606246,
            607175, 608103, 609031, 609958, 610886, 611813, 612739, 613666, 614592, 615519, 616444,
            617370, 618295, 619221, 620146, 621070, 621995, 622919, 623843, 624766, 625690, 626613,
            627536, 628459, 629381, 630303, 631226, 632147, 633069, 633990, 634911, 635832, 636753,
            637673, 638593, 639513, 640433, 641352, 642271, 643190, 644109, 645027, 645946, 646864,
            647782, 648699, 649616, 650534, 651450, 652367, 653284, 654200, 655116, 656032, 656947,
            657862, 658777, 659692, 660607, 661521, 662436, 663349, 664263, 665177, 666090, 667003,
            667916, 668829, 669741, 670653, 671565, 672477, 673389, 674300, 675211, 676122, 677032,
            677943, 678853, 679763, 680673, 681583, 682492, 683401, 684310, 685219, 686127, 687036,
            687944, 688852, 689759, 690667, 691574, 692481, 693388, 694295, 695201, 696107, 697013,
            697919, 698825, 699730, 700635, 701540, 702445, 703350, 704254, 705158, 706062, 706966,
            707869, 708773, 709676, 710579, 711481, 712384, 713286, 714188, 715090, 715992, 716894,
            717795, 718696, 719597, 720498, 721398, 722299, 723199, 724099, 724998, 725898, 726797,
            727696, 728595, 729494, 730393, 731291, 732189, 733087, 733985, 734882, 735780, 736677,
            737574, 738471, 739367, 740264, 741160, 742056, 742952, 743848, 744743, 745638, 746533,
            747428, 748323, 749218, 750112, 751006, 751900, 752794, 753687, 754581, 755474, 756367,
            757260, 758153, 759045, 759937, 760829, 761721, 762613, 763505, 764396, 765287, 766178,
            767069, 767960, 768850, 769740, 770630, 771520, 772410, 773300, 774189, 775078, 775967,
            776856, 777745, 778633, 779521, 780409, 781297, 782185, 783073, 783960, 784847, 785734,
            786621, 787508, 788394, 789281, 790167, 791053, 791939, 792824, 793710, 794595, 795480,
            796365, 797250, 798134, 799019, 799903, 800787, 801671, 802555, 803438, 804322, 805205,
            806088, 806971, 807854, 808736, 809618, 810501, 811383, 812265, 813146, 814028, 814909,
            815790, 816671, 817552, 818433, 819313, 820194, 821074, 821954, 822834, 823713, 824593,
            825472, 826351, 827230, 828109, 828988, 829866, 830745, 831623, 832501, 833379, 834257,
            835134, 836012, 836889, 837766, 838643, 839519, 840396, 841272, 842149, 843025, 843901,
            844776, 845652, 846527, 847403, 848278, 849153, 850028, 850902, 851777, 852651, 853525,
            854399, 855273, 856147, 857020, 857894, 858767, 859640, 860513, 861386, 862258, 863131,
            864003, 864875, 865747, 866619, 867491, 868362, 869234, 870105, 870976, 871847, 872717,
            873588, 874458, 875329, 876199, 877069, 877939, 878808, 879678, 880547, 881416, 882286,
            883154, 884023, 884892, 885760, 886629, 887497, 888365, 889233, 890100, 890968, 891835,
            892703, 893570, 894437, 895304, 896170, 897037, 897903, 898769, 899636, 900501, 901367,
            902233, 903098, 903964, 904829, 905694, 906559, 907424, 908288, 909153, 910017, 910881,
            911745, 912609, 913473, 914337, 915200, 916063, 916927, 917790, 918653, 919515, 920378,
            921240, 922103, 922965, 923827, 924689, 925551, 926412, 927274, 928135, 928996, 929857,
            930718, 931579, 932440, 933300, 934160, 935021, 935881, 936741, 937600, 938460, 939320,
            940179, 941038, 941897, 942756, 943615, 944474, 945332, 946191, 947049, 947907, 948765,
            949623, 950481, 951338, 952196, 953053, 953910, 954767, 955624, 956481, 957337, 958194,
            959050, 959907, 960763, 961619, 962474, 963330, 964186, 965041, 965896, 966752, 967607,
            968461, 969316, 970171, 971025, 971880, 972734, 973588, 974442, 975296, 976149, 977003,
            977856, 978710, 979563, 980416, 981269, 982122, 982974, 983827, 984679, 985531, 986384,
            987236, 988087, 988939, 989791, 990642, 991494, 992345, 993196, 994047, 994898, 995748,
            996599, 997449, 998300, 999150, 1000000 >>)
     @@ (90 :> <<
            0, 1995, 3723, 5363, 6948, 8493, 10008, 11497, 12965, 14415, 15849, 17268, 18675, 20070,
            21454, 22829, 24194, 25551, 26900, 28241, 29575, 30903, 32224, 33539, 34849, 36153,
            37452, 38746, 40035, 41320, 42600, 43876, 45148, 46415, 47679, 48940, 50196, 51450,
            52699, 53946, 55189, 56429, 57667, 58901, 60132, 61361, 62587, 63810, 65031, 66249,
            67464, 68677, 69888, 71097, 72303, 73507, 74708, 75908, 77105, 78301, 79494, 80686,
            81875, 83063, 84248, 85432, 86614, 87795, 88973, 90150, 91325, 92498, 93670, 94840,
            96008, 97175, 98340, 99504, 100667, 101827, 102987, 104145, 105301, 106456, 107610,
            108762, 109913, 111062, 112211, 113358, 114503, 115648, 116791, 117933, 119073, 120213,
            121351, 122488, 123624, 124759, 125893, 127025, 128156, 129287, 130416, 131544, 132671,
            133797, 134922, 136045, 137168, 138290, 139411, 140531, 141649, 142767, 143884, 145000,
            146115, 147229, 148342, 149454, 150565, 151675, 152785, 153893, 155001, 156107, 157213,
            158318, 159422, 160526, 161628, 162730, 163830, 164930, 166029, 167128, 168225, 169322,
            170418, 171513, 172607, 173701, 174794, 175886, 176977, 178068, 179158, 180247, 181335,
            182423, 183510, 184596, 185682, 186766, 187850, 188934, 190017, 191099, 192180, 193261,
            194341, 195420, 196499, 197577, 198654, 199731, 200807, 201882, 202957, 204031, 205105,
            206178, 207250, 208322, 209393, 210463, 211533, 212602, 213671, 214739, 215806, 216873,
            217940, 219005, 220070, 221135, 222199, 223262, 224325, 225388, 226449, 227511, 228571,
            229631, 230691, 231750, 232808, 233866, 234924, 235981, 237037, 238093, 239148, 240203,
            241257, 242311, 243364, 244417, 245469, 246521, 247572, 248623, 249673, 250723, 251773,
            252821, 253870, 254918, 255965, 257012, 258058, 259104, 260150, 261195, 262239, 263283,
            264327, 265370, 266413, 267455, 268497, 269538, 270579, 271620, 272660, 273699, 274738,
            275777, 276815, 277853, 278891, 279928, 280964, 282000, 283036, 284071, 285106, 286141,
            287175, 288208, 289241, 290274, 291307, 292339, 293370, 294401, 295432, 296463, 297492,
            298522, 299551, 300580, 301608, 302636, 303664, 304691, 305718, 306745, 307771, 308796,
            309822, 310847, 311871, 312896, 313919, 314943, 315966, 316989, 318011, 319033, 320055,
            321076, 322097, 323117, 324138, 325157, 326177, 327196, 328215, 329233, 330251, 331269,
            332286, 333303, 334320, 335336, 336352, 337368, 338383, 339398, 340413, 341427, 342441,
            343455, 344468, 345481, 346494, 347506, 348518, 349530, 350541, 351552, 352563, 353573,
            354583, 355593, 356603, 357612, 358620, 359629, 360637, 361645, 362652, 363660, 364666,
            365673, 366679, 367685, 368691, 369696, 370701, 371706, 372711, 373715, 374719, 375722,
            376726, 377728, 378731, 379734, 380736, 381737, 382739, 383740, 384741, 385742, 386742,
            387742, 388742, 389741, 390740, 391739, 392738, 393736, 394734, 395732, 396730, 397727,
            398724, 399721, 400717, 401713, 402709, 403704, 404700, 405695, 406690, 407684, 408678,
            409672, 410666, 411659, 412652, 413645, 414638, 415630, 416622, 417614, 418606, 419597,
            420588, 421579, 422569, 423560, 424550, 425539, 426529, 427518, 428507, 429496, 430484,
            431473, 432461, 433448, 434436, 435423, 436410, 437397, 438383, 439370, 440356, 441341,
            442327, 443312, 444297, 445282, 446266, 447251, 448235, 449219, 450202, 451185, 452169,
            453151, 454134, 455116, 456099, 457080, 458062, 459044, 460025, 461006, 461986, 462967,
            463947, 464927, 465907, 466887, 467866, 468845, 469824, 470803, 471781, 472760, 473738,
            474715, 475693, 476670, 477647, 478624, 479601, 480577, 481554, 482530, 483505, 484481,
            485456, 486432, 487406, 488381, 489356, 490330, 491304, 492278, 493251, 494225, 495198,
            496171, 497144, 498116, 499089, 500061, 501033, 502005, 502976, 503947, 504918, 505889,
            506860, 507831, 508801, 509771, 510741, 511710, 512680, 513649, 514618, 515587, 516556,
            517524, 518492, 519460, 520428, 521396, 522363, 523331, 524298, 525264, 526231, 527198,
            528164, 529130, 530096, 531061, 532027, 532992, 533957, 534922, 535887, 536851, 537816,
            538780, 539744, 540707, 541671, 542634, 543597, 544560, 545523, 546486, 547448, 548410,
            549372, 550334, 551296, 552257, 553219, 554180, 555141, 556101, 557062, 558022, 558982,
            559942, 560902, 561862, 562821, 563781, 564740, 565699, 566657, 567616, 568574, 569532,
            570490, 571448, 572406, 573363, 574321, 575278, 576235, 577191, 578148, 579104, 580061,
            581017, 581973, 582928, 583884, 584839, 585794, 586749, 587704, 588659, 589613, 590568,
            591522, 592476, 593430, 594383, 595337, 596290, 597243, 598196, 599149, 600102, 601054,
            602006, 602958, 603910, 604862, 605814, 606765, 607717, 608668, 609619, 610569, 611520,
            612471, 613421, 614371, 615321, 616271, 617220, 618170, 619119, 620068, 621017, 621966,
            622915, 623863, 624812, 625760, 626708, 627656, 628604, 629551, 630499, 631446, 632393,
            633340, 634287, 635233, 636180, 637126, 638072, 639018, 639964, 640910, 641855, 642801,
            643746, 644691, 645636, 646581, 647525, 648470, 649414, 650358, 651302, 652246, 653190,
            654133, 655076, 656020, 656963, 657906, 658849, 659791, 660734, 661676, 662618, 663560,
            664502, 665444, 666385, 667327, 668268, 669209, 670150, 671091, 672032, 672972, 673913,
            674853, 675793, 676733, 677673, 678613, 679552, 680492, 681431, 682370, 683309, 684248,
            685187, 686125, 687063, 688002, 688940, 689878, 690816, 691753, 692691, 693628, 694566,
            695503, 696440, 697377, 698313, 699250, 700186, 701123, 702059, 702995, 703931, 704866,
            705802, 706737, 707673, 708608, 709543, 710478, 711413, 712347, 713282, 714216, 715150,
            716084, 717018, 717952, 718886, 719819, 720753, 721686, 722619, 723552, 724485, 725418,
            726350, 727283, 728215, 729148, 730080, 731012, 731943, 732875, 733807, 734738, 735669,
            736600, 737532, 738462, 739393, 740324, 741254, 742185, 743115, 744045, 744975, 745905,
            746835, 747764, 748694, 749623, 750552, 751481, 752410, 753339, 754268, 755197, 756125,
            757053, 757981, 758910, 759838, 760765, 761693, 762621, 763548, 764475, 765403, 766330,
            767257, 768183, 769110, 770037, 770963, 771890, 772816, 773742, 774668, 775594, 776519,
            777445, 778370, 779296, 780221, 781146, 782071, 782996, 783921, 784845, 785770, 786694,
            787618, 788542, 789466, 790390, 791314, 792238, 793161, 794085, 795008, 795931, 796854,
            797777, 798700, 799623, 800545, 801468, 802390, 803312, 804234, 805156, 806078, 807000,
            807922, 808843, 809765, 810686, 811607, 812528, 813449, 814370, 815291, 816211, 817132,
            818052, 818972, 819893, 820813, 821732, 822652, 823572, 824491, 825411, 826330, 827250,
            828169, 829088, 830006, 830925, 831844, 832762, 833681, 834599, 835517, 836436, 837354,
            838271, 839189, 840107, 841024, 841942, 842859, 843776, 844693, 845610, 846527, 847444,
            848361, 849277, 850194, 851110, 852026, 852942, 853858, 854774, 855690, 856606, 857521,
            858437, 859352, 860267, 861182, 862097, 863012, 863927, 864842, 865756, 866671, 867585,
            868499, 869414, 870328, 871242, 872155, 873069, 873983, 874896, 875810, 876723, 877636,
            878549, 879462, 880375, 881288, 882201, 883113, 884026, 884938, 885850, 886762, 887674,
            888586, 889498, 890410, 891322, 892233, 893144, 894056, 894967, 895878, 896789, 897700,
            898611, 899522, 900432, 901343, 902253, 903163, 904074, 904984, 905894, 906804, 907713,
            908623, 909533, 910442, 911351, 912261, 913170, 914079, 914988, 915897, 916806, 917714,
            918623, 919531, 920440, 921348, 922256, 923164, 924072, 924980, 925888, 926796, 927703,
            928611, 929518, 930425, 931333, 932240, 933147, 934054, 934960, 935867, 936774, 937680,
            938587, 939493, 940399, 941305, 942211, 943117, 944023, 944929, 945834, 946740, 947645,
            948551, 949456, 950361, 951266, 952171, 953076, 953981, 954885, 955790, 956694, 957599,
            958503, 959407, 960311, 961215, 962119, 963023, 963927, 964831, 965734, 966638, 967541,
            968444, 969347, 970250, 971153, 972056, 972959, 973862, 974764, 975667, 976569, 977472,
            978374, 979276, 980178, 981080, 981982, 982884, 983785, 984687, 985588, 986490, 987391,
            988292, 989193, 990095, 990995, 991896, 992797, 993698, 994598, 995499, 996399, 997300,
            998200, 999100, 1000000 >>)
     @@ (95 :> <<
            0, 1413, 2729, 4011, 5272, 6517, 7749, 8971, 10184, 11390, 12589, 13782, 14970, 16153,
            17331, 18505, 19675, 20841, 22004, 23164, 24321, 25475, 26626, 27774, 28920, 30064,
            31205, 32344, 33481, 34616, 35749, 36880, 38010, 39137, 40263, 41387, 42510, 43631,
            44750, 45868, 46985, 48100, 49214, 50326, 51438, 52547, 53656, 54764, 55870, 56975,
            58079, 59182, 60284, 61385, 62485, 63584, 64681, 65778, 66874, 67969, 69063, 70156,
            71248, 72339, 73430, 74519, 75608, 76696, 77783, 78869, 79955, 81039, 82123, 83206,
            84289, 85371, 86452, 87532, 88611, 89690, 90769, 91846, 92923, 93999, 95075, 96150,
            97224, 98298, 99371, 100443, 101515, 102586, 103657, 104727, 105797, 106865, 107934,
            109002, 110069, 111136, 112202, 113267, 114333, 115397, 116461, 117525, 118588, 119651,
            120713, 121774, 122835, 123896, 124956, 126016, 127075, 128134, 129192, 130250, 131307,
            132364, 133420, 134476, 135532, 136587, 137642, 138696, 139750, 140804, 141857, 142909,
            143961, 145013, 146065, 147116, 148166, 149217, 150266, 151316, 152365, 153414, 154462,
            155510, 156558, 157605, 158652, 159698, 160744, 161790, 162835, 163880, 164925, 165969,
            167013, 168057, 169100, 170143, 171186, 172228, 173270, 174312, 175353, 176394, 177435,
            178475, 179515, 180555, 181594, 182634, 183672, 184711, 185749, 186787, 187824, 188862,
            189899, 190935, 191972, 193008, 194043, 195079, 196114, 197149, 198184, 199218, 200252,
            201286, 202319, 203353, 204385, 205418, 206450, 207483, 208514, 209546, 210577, 211608,
            212639, 213670, 214700, 215730, 216760, 217789, 218818, 219847, 220876, 221905, 222933,
            223961, 224988, 226016, 227043, 228070, 229097, 230123, 231150, 232176, 233201, 234227,
            235252, 236277, 237302, 238327, 239351, 240375, 241399, 242423, 243446, 244469, 245492,
            246515, 247538, 248560, 249582, 250604, 251626, 252647, 253668, 254689, 255710, 256731,
            257751, 258771, 259791, 260811, 261831, 262850, 263869, 264888, 265907, 266925, 267943,
            268961, 269979, 270997, 272014, 273032, 274049, 275066, 276082, 277099, 278115, 279131,
            280147, 281163, 282178, 283194, 284209, 285224, 286239, 287253, 288267, 289282, 290296,
            291309, 292323, 293336, 294350, 295363, 296376, 297388, 298401, 299413, 300425, 301437,
            302449, 303461, 304472, 305484, 306495, 307506, 308516, 309527, 310537, 311547, 312558,
            313567, 314577, 315587, 316596, 317605, 318614, 319623, 320632, 321640, 322649, 323657,
            324665, 325673, 326680, 327688, 328695, 329703, 330710, 331717, 332723, 333730, 334736,
            335742, 336749, 337755, 338760, 339766, 340771, 341777, 342782, 343787, 344792, 345796,
            346801, 347805, 348809, 349814, 350817, 351821, 352825, 353828, 354832, 355835, 356838,
            357841, 358843, 359846, 360848, 361851, 362853, 363855, 364857, 365858, 366860, 367861,
            368863, 369864, 370865, 371866, 372866, 373867, 374867, 375868, 376868, 377868, 378868,
            379867, 380867, 381866, 382866, 383865, 384864, 385863, 386861, 387860, 388859, 389857,
            390855, 391853, 392851, 393849, 394847, 395844, 396842, 397839, 398836, 399833, 400830,
            401827, 402823, 403820, 404816, 405812, 406809, 407805, 408800, 409796, 410792, 411787,
            412783, 413778, 414773, 415768, 416763, 417757, 418752, 419747, 420741, 421735, 422729,
            423723, 424717, 425711, 426704, 427698, 428691, 429685, 430678, 431671, 432664, 433656,
            434649, 435642, 436634, 437626, 438618, 439610, 440602, 441594, 442586, 443577, 444569,
            445560, 446552, 447543, 448534, 449525, 450515, 451506, 452497, 453487, 454477, 455467,
            456458, 457448, 458437, 459427, 460417, 461406, 462396, 463385, 464374, 465363, 466352,
            467341, 468330, 469319, 470307, 471295, 472284, 473272, 474260, 475248, 476236, 477224,
            478211, 479199, 480186, 481174, 482161, 483148, 484135, 485122, 486109, 487096, 488082,
            489069, 490055, 491041, 492028, 493014, 494000, 494985, 495971, 496957, 497942, 498928,
            499913, 500899, 501884, 502869, 503854, 504839, 505823, 506808, 507792, 508777, 509761,
            510746, 511730, 512714, 513698, 514682, 515665, 516649, 517632, 518616, 519599, 520583,
            521566, 522549, 523532, 524515, 525497, 526480, 527463, 528445, 529427, 530410, 531392,
            532374, 533356, 534338, 535320, 536301, 537283, 538265, 539246, 540227, 541209, 542190,
            543171, 544152, 545133, 546113, 547094, 548075, 549055, 550036, 551016, 551996, 552976,
            553956, 554936, 555916, 556896, 557876, 558855, 559835, 560814, 561793, 562773, 563752,
            564731, 565710, 566689, 567667, 568646, 569625, 570603, 571582, 572560, 573538, 574516,
            575495, 576473, 577450, 578428, 579406, 580384, 581361, 582339, 583316, 584293, 585271,
            586248, 587225, 588202, 589179, 590155, 591132, 592109, 593085, 594062, 595038, 596014,
            596990, 597966, 598942, 599918, 600894, 601870, 602846, 603821, 604797, 605772, 606748,
            607723, 608698, 609673, 610648, 611623, 612598, 613573, 614548, 615522, 616497, 617471,
            618446, 619420, 620394, 621368, 622342, 623316, 624290, 625264, 626238, 627211, 628185,
            629158, 630132, 631105, 632078, 633052, 634025, 634998, 635971, 636943, 637916, 638889,
            639862, 640834, 641807, 642779, 643751, 644724, 645696, 646668, 647640, 648612, 649584,
            650555, 651527, 652499, 653470, 654442, 655413, 656384, 657356, 658327, 659298, 660269,
            661240, 662211, 663182, 664152, 665123, 666094, 667064, 668034, 669005, 669975, 670945,
            671915, 672885, 673855, 674825, 675795, 676765, 677735, 678704, 679674, 680643, 681613,
            682582, 683551, 684520, 685490, 686459, 687427, 688396, 689365, 690334, 691303, 692271,
            693240, 694208, 695177, 696145, 697113, 698081, 699049, 700018, 700985, 701953, 702921,
            703889, 704857, 705824, 706792, 707759, 708727, 709694, 710661, 711628, 712596, 713563,
            714530, 715497, 716463, 717430, 718397, 719364, 720330, 721297, 722263, 723229, 724196,
            725162, 726128, 727094, 728060, 729026, 729992, 730958, 731924, 732890, 733855, 734821,
            735786, 736752, 737717, 738682, 739648, 740613, 741578, 742543, 743508, 744473, 745438,
            746402, 747367, 748332, 749296, 750261, 751225, 752190, 753154, 754118, 755082, 756046,
            757010, 757974, 758938, 759902, 760866, 761830, 762793, 763757, 764721, 765684, 766647,
            767611, 768574, 769537, 770500, 771464, 772427, 773390, 774352, 775315, 776278, 777241,
            778203, 779166, 780129, 781091, 782053, 783016, 783978, 784940, 785902, 786865, 787827,
            788789, 789750, 790712, 791674, 792636, 793597, 794559, 795521, 796482, 797443, 798405,
            799366, 800327, 801289, 802250, 803211, 804172, 805133, 806093, 807054, 808015, 808976,
            809936, 810897, 811857, 812818, 813778, 814739, 815699, 816659, 817619, 818579, 819539,
            820499, 821459, 822419, 823379, 824339, 825298, 826258, 827217, 828177, 829136, 830096,
            831055, 832014, 832974, 833933, 834892, 835851, 836810, 837769, 838728, 839686, 840645,
            841604, 842563, 843521, 844480, 845438, 846397, 847355, 848313, 849271, 850230, 851188,
            852146, 853104, 854062, 855020, 855977, 856935, 857893, 858851, 859808, 860766, 861723,
            862681, 863638, 864595, 865553, 866510, 867467, 868424, 869381, 870338, 871295, 872252,
            873209, 874166, 875122, 876079, 877036, 877992, 878949, 879905, 880862, 881818, 882774,
            883730, 884687, 885643, 886599, 887555, 888511, 889467, 890422, 891378, 892334, 893290,
            894245, 895201, 896156, 897112, 898067, 899023, 899978, 900933, 901888, 902844, 903799,
            904754, 905709, 906664, 907619, 908573, 909528, 910483, 911438, 912392, 913347, 914301,
            915256, 916210, 917165, 918119, 919073, 920027, 920981, 921936, 922890, 923844, 924798,
            925751, 926705, 927659, 928613, 929566, 930520, 931474, 932427, 933381, 934334, 935287,
            936241, 937194, 938147, 939100, 940054, 941007, 941960, 942913, 943866, 944818, 945771,
            946724, 947677, 948629, 949582, 950535, 951487, 952440, 953392, 954344, 955297, 956249,
            957201, 958153, 959105, 960057, 961009, 961961, 962913, 963865, 964817, 965769, 966721,
            967672, 968624, 969575, 970527, 971478, 972430, 973381, 974333, 975284, 976235, 977186,
            978137, 979088, 980039, 980990, 981941, 982892, 983843, 984794, 985745, 986695, 987646,
            988597, 989547, 990498, 991448, 992398, 993349, 994299, 995249, 996200, 997150, 998100,
            999050, 1000000 >>)

----------------------------------------------------------------------------
(* Raw map elements.  An element is a record                                 *)
(*   [id, lat, lon, clat, clon, tags]                                        *)
(* where id = 0, lat = 0, ... stand for an absent field (all are falsy in    *)
(* the program), (clat, clon) is element.center and tags maps the tag keys   *)
(* that are present to their values.                                         *)

\* Coordinates are in units of 1e-4 degree, distances in decimetres: one
\* unit of latitude is R * pi / 180 * 1e-4 = 11.1 m.
DecimetresPerUnit == 111

Tag(e, k) == IF k \in DOMAIN e.tags THEN e.tags[k] ELSE ""

toLowerCase(s) == [n \in 1..Len(s) |-> IF s[n] >= 65 /\ s[n] <= 90 THEN s[n] + 32 ELSE s[n]]

RECURSIVE trim(_)
trim(s) ==
    IF Len(s) > 0 /\ s[1] = 32 THEN trim(Tail(s))
    ELSE IF Len(s) > 0 /\ s[Len(s)] = 32 THEN trim(SubSeq(s, 1, Len(s) - 1))
    ELSE s

\* String.prototype.includes
includes(s, sub) ==
    \E n \in 0..(Len(s) - Len(sub)) : SubSeq(s, n + 1, n + Len(sub)) = sub

\* element.tags.name.toLowerCase().includes(kw), false when there is no name
NameHas(e, kw) ==
    Tag(e, "name") # "" /\ includes(toLowerCase(Text[Tag(e, "name")]), Text[kw])

NameHasAny(e, kws) == \E kw \in kws : NameHas(e, kw)

RECURSIVE ISqrtFrom(_, _, _)
ISqrtFrom(n, lo, hi) ==
    IF lo >= hi THEN lo
    ELSE LET mid == (lo + hi + 1) \div 2
         IN  IF mid * mid <= n THEN ISqrtFrom(n, mid, hi) ELSE ISqrtFrom(n, lo, mid - 1)

Abs(x) == IF x < 0 THEN 0 - x ELSE x

\* calculateDistance: great-circle distance, in decimetres.  The model's
\* points lie within a fraction of a degree of each other, where the
\* haversine distance is the Euclidean one; a point at (0, 0) is far from
\* every origin.
calculateDistance(lat1, lng1, lat2, lng2) ==
    LET dLat == Min(Abs(lat2 - lat1), 3000)
        dLng == Min(Abs(lng2 - lng1), 3000)
    IN  (DecimetresPerUnit * ISqrtFrom(100 * (dLat * dLat + dLng * dLng), 0, 46000)) \div 10

\* Math.round of a distance: decimetres to whole metres
round(distance) == (distance + 5) \div 10

----------------------------------------------------------------------------
(* Distance contribution model *)

\* decayConfig of calculateDistanceContribution; decayRate in hundredths.
decayConfig ==
    [ health        |-> [maxDistance |-> 1000, maxContribution |-> 10, decayRate |-> 80],
      education     |-> [maxDistance |-> 1000, maxContribution |-> 10, decayRate |-> 90],
      market        |-> [maxDistance |-> 1000, maxContribution |-> 8,  decayRate |-> 85],
      transport     |-> [maxDistance |-> 1000, maxContribution |-> 10, decayRate |-> 95],
      walkability   |-> [maxDistance |-> 1000, maxContribution |-> 12, decayRate |-> 85],
      recreation    |-> [maxDistance |-> 1000, maxContribution |-> 8,  decayRate |-> 80],
      safety        |-> [maxDistance |-> 1000, maxContribution |-> 6,  decayRate |-> 70],
      accessibility |-> [maxDistance |-> 1000, maxContribution |-> 4,  decayRate |-> 90],
      police        |-> [maxDistance |-> 1000, maxContribution |-> 8,  decayRate |-> 60],
      religious     |-> [maxDistance |-> 1000, maxContribution |-> 6,  decayRate |-> 75] ]

\* Variant: no minimum contribution.
calculateDistanceContribution_NoFloor(distance, category) ==
    LET config == IF category \in DOMAIN decayConfig
                    THEN decayConfig[category] ELSE decayConfig.health
        base == 1000 - ((distance * 100) \div config.maxDistance)
    IN  IF distance > config.maxDistance * 10 THEN 0
        ELSE (config.maxContribution * PowMicro[config.decayRate][base + 1] + 500) \div 1000

\* calculateDistanceContribution(distance, category), in units of 1e-3, of
\* a distance in decimetres.
calculateDistanceContribution(distance, category) ==
    LET config == IF category \in DOMAIN decayConfig
                    THEN decayConfig[category] ELSE decayConfig.health
        base == 1000 - ((distance * 100) \div config.maxDistance)
        contribution ==
            (config.maxContribution * PowMicro[config.decayRate][base + 1] + 500) \div 1000
        minContribution == config.maxContribution * 100
    IN  IF distance > config.maxDistance * 10 THEN 0
        ELSE Max(contribution, minContribution)

----------------------------------------------------------------------------
(* Category classifier: the if / else-if cascade of processFacilities *)

IsEducation(e) ==
    \/ Tag(e, "amenity") \in {"school", "university", "college", "kindergarten", "library"}
    \/ NameHasAny(e, {"sekolah", "sd ", " smp", " sma", "smk", "universitas", "univ",
                      "kampus", "tk", "paud", "perpustakaan", "library"})

IsPolice(e) ==
    \/ Tag(e, "amenity") = "police"
    \/ NameHasAny(e, {"polisi", "polres", "polsek", "polda", "satlantas", "satpol",
                      "pp", "police"})

IsMarket(e) ==
    \/ Tag(e, "shop") # ""
    \/ Tag(e, "amenity") \in {"restaurant", "cafe", "fast_food", "food_court", "bar", "pub",
                              "ice_cream", "coffee_shop", "fuel", "gas_station",
                              "petrol_station", "service_station"}
    \/ /\ Tag(e, "amenity") = "community_centre"
       /\ NameHasAny(e, {"pasar", "market", "pusat", "center", "centre"})
    \/ NameHasAny(e, {"spbu", "pom bensin", "gas station", "petrol", "fuel", "bensin",
                      "solar", "pertamina", "shell", "bp", "esso", "caltex", "toko",
                      "warung", "shop", "store", "market", "mall", "plaza"})

IsHealth(e) ==
    \/ Tag(e, "amenity") \in {"hospital", "clinic", "doctors", "dentist", "pharmacy",
                              "veterinary"}
    \/ NameHas(e, "rumah sakit")
    \/ /\ NameHas(e, "rs ")
       /\ ~NameHasAny(e, {"sekolah", "sd", "smp", "sma", "smk"})
    \/ NameHasAny(e, {"rsud", "klinik", "apotek", "apotik", "dokter", "puskesmas", "poli"})

IsTransport(e) ==
    \/ Tag(e, "public_transport") \in {"platform", "station", "stop_position"}
    \/ Tag(e, "highway") = "bus_stop"
    \/ Tag(e, "railway") \in {"station", "halt", "tram_stop"}
    \/ NameHasAny(e, {"halte", "bus stop", "terminal", "stasiun", "station", "mrt", "lrt",
                      "transjakarta", "angkot"})

IsReligious(e) ==
    \/ Tag(e, "amenity") \in {"place_of_worship", "mosque", "church", "temple", "synagogue",
                              "hindu_temple", "buddhist_temple"}
    \/ NameHasAny(e, {"masjid", "gudang", "gereja", "katedral", "synagogue", "hindu_temple",
                      "buddhist_temple", "pura", "candi", "vihara"})

IsRecreation(e) ==
    \/ Tag(e, "leisure") \in {"park", "playground", "sports_centre", "fitness_centre",
                              "swimming_pool", "garden"}
    \/ Tag(e, "amenity") \in {"cinema", "theatre", "community_centre"}
    \/ NameHasAny(e, {"taman", "park", "playground", "kolam renang", "swimming", "gym",
                      "fitness", "bioskop", "cinema", "teater", "theatre",
                      "pusat komunitas"})

IsWalkability(e) ==
    \/ Tag(e, "highway") \in {"footway", "pedestrian", "path", "steps", "bridleway"}
    \/ Tag(e, "sidewalk") # ""
    \/ Tag(e, "footway") \in {"sidewalk", "crossing"}
    \/ Tag(e, "pedestrian") # ""
    \/ Tag(e, "route") \in {"foot", "hiking", "walking"}
    \/ Tag(e, "amenity") \in {"bench", "drinking_water"}
    \/ Tag(e, "highway") = "street_lamp"
    \/ Tag(e, "lit") = "yes"
    \/ Tag(e, "traffic_calming") # ""
    \/ Tag(e, "maxspeed") # ""
    \/ Tag(e, "zone_traffic") # ""
    \/ Tag(e, "natural") \in {"tree_row", "hedge"}
    \/ Tag(e, "landuse") \in {"grass", "meadow"}
    \/ /\ Tag(e, "highway") = "crossing"
       /\ \/ Tag(e, "foot") = "designated"
          \/ Tag(e, "crossing") \in {"zebra", "traffic_signals", "uncontrolled"}
    \/ /\ Tag(e, "bridge") = "yes" \/ Tag(e, "tunnel") = "yes"
       /\ Tag(e, "highway") \in {"footway", "pedestrian", "path"}

IsAccessibility(e) ==
    \/ Tag(e, "barrier") = "kerb"
    \/ Tag(e, "kerb") \in {"lowered", "flush"}
    \/ Tag(e, "highway") = "elevator"
    \/ Tag(e, "highway") = "steps" /\ Tag(e, "incline") # ""
    \/ Tag(e, "amenity") = "parking" /\ Tag(e, "access") = "designated"
    \/ Tag(e, "tactile_paving") = "yes"
    \/ Tag(e, "amenity") = "toilets" /\ Tag(e, "wheelchair") = "yes"

IsSafety(e) ==
    \/ Tag(e, "highway") \in {"street_lamp", "crossing"}
    \/ Tag(e, "lit") = "yes"
    \/ Tag(e, "traffic_calming") # ""
    \/ Tag(e, "maxspeed") # ""
    \/ Tag(e, "sidewalk") # ""
    \/ Tag(e, "amenity") \in {"fire_station", "hospital"}
    \/ Tag(e, "man_made") = "surveillance"
    \/ Tag(e, "surveillance_type") = "camera"

\* Variant: the police rule is tried before the education rule.
actualCategory_PoliceFirst(e, category) ==
    IF IsPolice(e) THEN "police"
    ELSE IF IsEducation(e) THEN "education"
    ELSE IF IsMarket(e) THEN "market"
    ELSE IF IsHealth(e) THEN "health"
    ELSE IF IsTransport(e) THEN "transport"
    ELSE IF IsReligious(e) THEN "religious"
    ELSE IF IsRecreation(e) THEN "recreation"
    ELSE IF IsWalkability(e) THEN "walkability"
    ELSE IF IsAccessibility(e) THEN "accessibility"
    ELSE IF IsSafety(e) THEN "safety"
    ELSE category

\* actualCategory of an element returned by the query of `category`
actualCategory(e, category) ==
    IF IsEducation(e) THEN "education"
    ELSE IF IsPolice(e) THEN "police"
    ELSE IF IsMarket(e) THEN "market"
    ELSE IF IsHealth(e) THEN "health"
    ELSE IF IsTransport(e) THEN "transport"
    ELSE IF IsReligious(e) THEN "religious"
    ELSE IF IsRecreation(e) THEN "recreation"
    ELSE IF IsWalkability(e) THEN "walkability"
    ELSE IF IsAccessibility(e) THEN "accessibility"
    ELSE IF IsSafety(e) THEN "safety"
    ELSE category

NameTagOrder ==
    << "name", "shop", "amenity", "leisure", "highway", "traffic_calming", "crossing_ref",
       "man_made", "barrier", "kerb", "wheelchair", "tactile_paving" >>

\* The display name: the first present tag of NameTagOrder, else "<category> facility".
facilityName(e, category) ==
    LET present == { n \in 1..Len(NameTagOrder) : Tag(e, NameTagOrder[n]) # "" }
    IN  IF present = {} THEN Text[category] \o Text[" facility"]
        ELSE Text[Tag(e, NameTagOrder[CHOOSE n \in present : \A m \in present : n <= m])]

----------------------------------------------------------------------------
(* Facility processor *)

\* The record built for elements[index + 1] (index is the 0-based map index).
toFacility(e, index, category, userLat, userLng) ==
    LET lat == IF e.lat # 0 THEN e.lat ELSE e.clat
        lng == IF e.lon # 0 THEN e.lon ELSE e.clon
        distance == calculateDistance(userLat, userLng, lat, lng)
        cat == actualCategory(e, category)
    IN  [ id |-> << cat, IF e.id # 0 THEN e.id ELSE index >>,
          name |-> facilityName(e, cat),
          category |-> cat,
          lng |-> lng,
          lat |-> lat,
          distance |-> round(distance),
          contribution |-> calculateDistanceContribution(distance, cat),
          tags |-> e.tags ]

\* The max-distance table of the filter step (1000 when the category is unknown).
filterMaxDistance(category) ==
    IF category \in DOMAIN decayConfig THEN decayConfig[category].maxDistance ELSE 1000

nameSimilar(existing, facility) ==
    LET existingName == trim(toLowerCase(existing.name))
        facilityName2 == trim(toLowerCase(facility.name))
    IN  \/ existingName = facilityName2
        \/ includes(existingName, facilityName2)
        \/ includes(facilityName2, existingName)
        \/ includes(existingName, Text["sd"]) /\ includes(facilityName2, Text["sd"])
        \/ includes(existingName, Text["sekolah"]) /\ includes(facilityName2, Text["sekolah"])

isDuplicate(existing, facility) ==
    /\ calculateDistance(existing.lat, existing.lng, facility.lat, facility.lng) < 50 * 10
    /\ nameSimilar(existing, facility)

\* findIndex: the first (1-based) index satisfying the test, 0 when none.
findIndex(acc, Test(_)) ==
    LET hits == { n \in 1..Len(acc) : Test(acc[n]) }
    IN  IF hits = {} THEN 0 ELSE CHOOSE n \in hits : \A m \in hits : n <= m

\* Variant: a duplicate always replaces the facility it duplicates.
dedupStep_Replace(acc, facility) ==
    LET Dup(existing) == isDuplicate(existing, facility)
        existingIndex == findIndex(acc, Dup)
    IN  IF existingIndex = 0 THEN Append(acc, facility)
        ELSE [acc EXCEPT ![existingIndex] = facility]

\* One step of the proximity + name reduce.
dedupStep(acc, facility) ==
    LET Dup(existing) == isDuplicate(existing, facility)
        existingIndex == findIndex(acc, Dup)
    IN  IF existingIndex = 0 THEN Append(acc, facility)
        ELSE IF facility.contribution > acc[existingIndex].contribution
               THEN [acc EXCEPT ![existingIndex] = facility]
               ELSE acc

RECURSIVE uniqueFacilities(_, _)
uniqueFacilities(acc, facilities) ==
    IF facilities = << >> THEN acc
    ELSE uniqueFacilities(dedupStep(acc, Head(facilities)), Tail(facilities))

\* One step of the identity reduce.
idStep(acc, facility) ==
    LET Same(existing) == existing.id = facility.id
    IN  IF findIndex(acc, Same) = 0 THEN Append(acc, facility) ELSE acc

RECURSIVE finalFacilities(_, _)
finalFacilities(acc, facilities) ==
    IF facilities = << >> THEN acc
    ELSE finalFacilities(idStep(acc, Head(facilities)), Tail(facilities))

processFacilities(elements, category, userLat, userLng) ==
    LET mapped == [n \in 1..Len(elements) |->
                       toFacility(elements[n], n - 1, category, userLat, userLng)]
        InRange(f) == f.distance <= filterMaxDistance(f.category)
        facilities == SelectSeq(mapped, InRange)
    IN  finalFacilities(<< >>, uniqueFacilities(<< >>, facilities))

\* The list the proximity + name reduce of processFacilities runs over: the
\* mapped facilities within the max distance of their category.
inRange(elements, category, userLat, userLng) ==
    LET mapped == [n \in 1..Len(elements) |->
                       toFacility(elements[n], n - 1, category, userLat, userLng)]
        InRange(f) == f.distance <= filterMaxDistance(f.category)
    IN  SelectSeq(mapped, InRange)

----------------------------------------------------------------------------
(* Score aggregation: the second half of calculateLivabilityScore *)

ZeroCounts == [c \in CategoryEnum |-> 0]

\* Variant: only street lamps count as lighting.
isLighting_LampOnly(f) == Tag(f, "highway") = "street_lamp"

isLighting(f) == Tag(f, "highway") = "street_lamp" \/ Tag(f, "lit") = "yes"

\* The amounts one API-sourced facility adds to categoryScores.  The sums
\* are in units of 1e-5 (contributions are in units of 1e-3), so that a
\* quarter of a contribution is exact.
apiScoreDelta(f) ==
    LET reducedContribution == f.contribution * 25
    IN  [c \in CategoryEnum |->
            IF f.category = "walkability"
              THEN IF c = "walkability" THEN reducedContribution
                   ELSE IF c = "safety" /\ isLighting(f) THEN reducedContribution
                   ELSE 0
            ELSE IF f.category = "safety"
              THEN IF c # "safety" THEN 0
                   ELSE IF Tag(f, "amenity") = "fire_station" THEN f.contribution * 100
                   ELSE reducedContribution
            ELSE IF c = f.category THEN f.contribution * 100 ELSE 0]

\* results.forEach: counts and sums over the facilities of the results.
RECURSIVE accumulateApi(_, _)
accumulateApi(acc, facilities) ==
    IF facilities = << >> THEN acc
    ELSE LET f == Head(facilities)
             d == apiScoreDelta(f)
         IN  accumulateApi(
                 IF f.category \in CategoryEnum
                   THEN [ counts |-> [acc.counts EXCEPT ![f.category] = @ + 1],
                          scores |-> [c \in CategoryEnum |-> acc.scores[c] + d[c]] ]
                   ELSE acc,
                 Tail(facilities))

\* customFacilities.forEach: custom facilities are added at full value.
RECURSIVE accumulateCustom(_, _)
accumulateCustom(acc, facilities) ==
    IF facilities = << >> THEN acc
    ELSE LET f == Head(facilities)
         IN  accumulateCustom(
                 IF f.category \in CategoryEnum
                   THEN [ counts |-> [acc.counts EXCEPT ![f.category] = @ + 1],
                          scores |-> [acc.scores EXCEPT
                                         ![f.category] = @ + f.contribution * 100] ]
                   ELSE acc,
                 Tail(facilities))

\* customPoiService.getPOIsNearLocation(lat, lng, 1000)
getPOIsNearLocation(all, lat, lng, radiusMeters) ==
    LET Near(poi) == calculateDistance(lat, lng, poi.lat, poi.lng) <= radiusMeters * 10
    IN  SelectSeq(all, Near)

\* Variant: the declared category is copied as it is.
customFacility_Unmapped(poi, lat, lng) ==
    LET distance == calculateDistance(lat, lng, poi.lat, poi.lng)
    IN  [ id |-> << "custom", poi.id >>,
          name |-> Text[poi.name] \o Text[" (Custom)"],
          category |-> poi.category,
          lng |-> poi.lng,
          lat |-> poi.lat,
          distance |-> round(distance),
          contribution |-> calculateDistanceContribution(distance, poi.category),
          tags |-> [k \in {"custom"} |-> "true"] ]

customFacility(poi, lat, lng) ==
    LET distance == calculateDistance(lat, lng, poi.lat, poi.lng)
    IN  [ id |-> << "custom", poi.id >>,
          name |-> Text[poi.name] \o Text[" (Custom)"],
          category |-> IF poi.category = "custom" THEN "recreation" ELSE poi.category,
          lng |-> poi.lng,
          lat |-> poi.lat,
          distance |-> round(distance),
          contribution |-> calculateDistanceContribution(distance, poi.category),
          tags |-> [k \in {"custom"} |-> "true"] ]

\* Variant: the rounded value is not capped.
cap_Uncapped(val) == (val + 500000) \div 1000000

\* cap(val) = Math.min(100, Math.round(val)) for val given in units of 1e-6
cap(val) == Min(100, (val + 500000) \div 1000000)

\* Variant: the terms are the facility counts.
calculateSubScores_Counts(categoryScores, counts) ==
    [ services    |-> cap(100000 * (counts["health"] * 12 + counts["education"] * 10
                          + counts["market"] * 8 + counts["religious"] * 8)),
      mobility    |-> cap(100000 * (counts["transport"] * 15 + counts["walkability"] * 5)),
      safety      |-> cap(100000 * (counts["safety"] * 6 + counts["police"] * 20
                          + counts["health"] * 8 + counts["accessibility"] * 10)),
      environment |-> cap(100000 * (counts["recreation"] * 25)) ]

\* calculateSubScores on sums in units of 1e-5 (weights in tenths); the
\* counts are passed and not used.
calculateSubScores(categoryScores, counts) ==
    [ services    |-> cap(categoryScores["health"] * 12 + categoryScores["education"] * 10
                          + categoryScores["market"] * 8 + categoryScores["religious"] * 8),
      mobility    |-> cap(categoryScores["transport"] * 15 + categoryScores["walkability"] * 5),
      safety      |-> cap(categoryScores["safety"] * 6 + categoryScores["police"] * 20
                          + categoryScores["health"] * 8 + categoryScores["accessibility"] * 10),
      environment |-> cap(categoryScores["recreation"] * 25) ]

\* overall, in units of 1e-2
overallScore(subscores) ==
    subscores.services * 30 + subscores.mobility * 25 + subscores.safety * 25
        + subscores.environment * 20

RECURSIVE flatten(_)
flatten(rs) == IF rs = << >> THEN << >> ELSE Head(rs).facilities \o flatten(Tail(rs))

\* Everything calculateLivabilityScore does after the fetch loop.  The
\* category sums are local to the call; they are kept in the record so that
\* they can be inspected.
aggregate(rs, allPois, lat, lng) ==
    LET fulfilled == SelectSeq(rs, LAMBDA res : res.status = "fulfilled")
        apiFacilities == flatten(fulfilled)
        api == accumulateApi([counts |-> ZeroCounts, scores |-> ZeroCounts], apiFacilities)
        customPOIs == getPOIsNearLocation(allPois, lat, lng, 1000)
        customFacilities == [n \in 1..Len(customPOIs) |-> customFacility(customPOIs[n], lat, lng)]
        all == accumulateCustom(api, customFacilities)
        subscores == calculateSubScores(all.scores, all.counts)
    IN  [ overall |-> overallScore(subscores),
          subscores |-> subscores,
          facilityCounts |-> all.counts,
          categoryScores |-> all.scores,
          facilities |-> apiFacilities \o customFacilities ]

----------------------------------------------------------------------------
(* The environment: map data, custom POIs, origins, network outcomes *)

El(id, lat, lon, tags) ==
    [id |-> id, lat |-> lat, lon |-> lon, clat |-> 0, clon |-> 0, tags |-> tags]

Clinic       == El(1, 10010, 20000, ("amenity" :> "clinic") @@ ("name" :> "Klinik Sehat"))
UnivHospital == El(2, 10020, 20000, ("amenity" :> "hospital") @@ ("name" :> "RS Universitas"))
School       == El(3, 10030, 20000, ("amenity" :> "school") @@ ("name" :> "SD Negeri 1"))
FarClinic    == El(4, 10200, 20000, ("amenity" :> "clinic"))

NoElements == [c \in CategoryEnum |-> << >>]

\* What the server returns for the query of each category.
Worlds ==
    { [NoElements EXCEPT !["health"] = << Clinic, FarClinic >>, !["education"] = << School >>],
      [NoElements EXCEPT !["health"] = << UnivHospital >>] }

PoiSets ==
    { << >>,
      << [id |-> 1, name |-> "My Place", category |-> "market",
          lat |-> 10005, lng |-> 20000] >> }


\* How a network request ends: an HTTP status, or 0 for a thrown error
\* (fetch rejected, or response.json() failed).
Outcomes == { 200, 429, 503, 0 }

responseOk(status) == status >= 200 /\ status <= 299

\* error.message of the error a failed request raises
errorMessage(status) ==
    IF status = 0 THEN Text["Failed to fetch"]
    ELSE Text["HTTP error! status: "] \o DigitsOf(status)

----------------------------------------------------------------------------
(* Fetch orchestrator: the first half of calculateLivabilityScore *)

category(r) == categories[ci[r]]

runKey(r) == LocationKey(category(r), origin[r][1], origin[r][2])

\* The position and category index of a run once the current category is settled.
nextPosition(r) == IF ci[r] < Len(categories) THEN "check" ELSE "aggregate"

nextIndex(r) == IF ci[r] < Len(categories) THEN ci[r] + 1 ELSE ci[r]

fulfilled(cat, facilities, fromCache) ==
    [category |-> cat, facilities |-> facilities, status |-> "fulfilled",
     fromCache |-> fromCache]

\* Variant: the default schedule whatever the error.
waitTime_Default(i, message) == BackoffUnit * (i + 1)

\* waitTime of the catch block of fetchCategoryWithRetry
waitTime(i, message) ==
    IF includes(message, Text["429"]) THEN RateLimitWait ELSE BackoffUnit * (i + 1)

\* Variant: one more retry before giving up.
isLastAttempt_OneMore(i) == i = retries + 1

\* Variant: the error is never rethrown.
isLastAttempt_Never(i) == FALSE

\* "if (i === retries) throw error"
isLastAttempt(i) == i = retries

\* Variant: no delay after any result.
interCategoryDelay_None(fromCache) == 0

\* The delay the fetch loop awaits after pushing a result
interCategoryDelay(fromCache) == IF fromCache THEN 0 ELSE InterCategoryDelay

\* Variant: the result of a given-up category carries a facility.
failedResult_NotEmpty(cat) ==
    fulfilled(cat, processFacilities(<< School >>, cat, Origins1[1], Origins1[2]), FALSE)

\* The result the catch block of the fetch loop pushes for a given-up category
failedResult(cat) == fulfilled(cat, << >>, FALSE)

\* Variant: the error of a given-up category propagates out of the call.
onFinalFailure_Raises(r) ==
    [ pc |-> "raised", results |-> results[r] ]

\* The catch block of the fetch loop: the error of a given-up category is
\* swallowed, the result is pushed and the loop goes on.
onFinalFailure(r) ==
    [ pc |-> nextPosition(r),
      results |-> Append(results[r], failedResult(category(r))) ]

\* Variant: the run does not await the response and goes on.
awaitResponse_NoWait == "check"

\* The position of a run that has issued a request: it awaits the response.
awaitResponse == "inflight"

\* Variant: cacheAPI writes whatever way fetchFn has settled.
cacheAPIStore_Always(st, key, ok, data, ttl) == SetResults(st, key, data, ttl)

\* cacheAPI once fetchFn has settled: the stores it can leave
cacheAPIStore(st, key, ok, data, ttl) ==
    IF ok THEN SetResults(st, key, data, ttl) ELSE { st }

\* queryOverpassAPI once its request has settled: cacheAPI is given the
\* lifetime of facility data.
queryOverpassAPIStore(st, key, ok, data) == cacheAPIStore(st, key, ok, data, FacilityTTL)

\* Log of the category a run is in (observation only): network requests
\* issued, how the category ended, the last failure status and backoff, and
\* the inter-category delay applied.
NewLog ==
    [requests |-> 0, how |-> "pending", status |-> 0, wait |-> 0, delay |-> 0]

\* fetchCategoryWithRetry returned: the result is pushed and the loop delays
\* unless the result is marked fromCache.
Return(r, st, elements, fromCache, how, lg) ==
    LET d == interCategoryDelay(fromCache)
        facilities == processFacilities(elements, category(r), origin[r][1], origin[r][2])
    IN  /\ store' = st
        /\ results' = [results EXCEPT ![r] =
                          Append(@, fulfilled(category(r), facilities, fromCache))]
        /\ pc' = [pc EXCEPT ![r] = IF d > 0 THEN "delay" ELSE nextPosition(r)]
        /\ ci' = [ci EXCEPT ![r] = IF d > 0 THEN @ ELSE nextIndex(r)]
        /\ timer' = [timer EXCEPT ![r] = d]
        /\ log' = [log EXCEPT ![r] = [lg EXCEPT !.how = how, !.delay = d]]
        /\ hist' = [hist EXCEPT ![r] = Append(@, how)]
        /\ elapsed' = [elapsed EXCEPT ![r] = 0]

\* The catch block of the for loop for an error raised in iteration i: the
\* error is rethrown on the last iteration (the fetch loop then pushes the
\* empty result), otherwise the run waits and retries.
Caught(r, i, message, status, lg) ==
    IF isLastAttempt(i)
      THEN /\ pc' = [pc EXCEPT ![r] = onFinalFailure(r).pc]
           /\ results' = [results EXCEPT ![r] = onFinalFailure(r).results]
           /\ ci' = [ci EXCEPT ![r] = nextIndex(r)]
           /\ log' = [log EXCEPT ![r] = [lg EXCEPT !.how = "giveup", !.status = status]]
           /\ hist' = [hist EXCEPT ![r] = Append(@, "giveup")]
           /\ elapsed' = [elapsed EXCEPT ![r] = 0]
           /\ gaveUp' = gaveUp \cup { runKey(r) }
           /\ UNCHANGED timer
      ELSE /\ pc' = [pc EXCEPT ![r] = "backoff"]
           /\ timer' = [timer EXCEPT ![r] = waitTime(i, message)]
           /\ log' = [log EXCEPT ![r] =
                 [lg EXCEPT !.status = status, !.wait = waitTime(i, message)]]
           /\ UNCHANGED << results, ci, hist, elapsed, gaveUp >>

\* One iteration of the for loop up to its await: queryOverpassAPI calls
\* cacheAPI, which reads the cache and, on a miss, issues the request.  A
\* value of undefined is not null: cacheAPI returns it, and elements.map of
\* processFacilities raises a TypeError inside the try block.
Attempt(r, st, i, lg) ==
    LET g == get(st, runKey(r))
    IN  /\ attempt' = [attempt EXCEPT ![r] = i]
        /\ IF g.found
             THEN /\ Return(r, g.store, g.data, FALSE, "cacheAPI", lg)
                  /\ UNCHANGED << inflight, gaveUp >>
             ELSE IF g.undefined
             THEN /\ store' = g.store
                  /\ Caught(r, i, Text["Cannot read properties of undefined (reading 'map')"],
                            0, lg)
                  /\ UNCHANGED inflight
             ELSE /\ store' = g.store
                  /\ UNCHANGED gaveUp
                  /\ inflight' = inflight \cup
                        { [run |-> r, category |-> category(r), attempt |-> i,
                           n |-> lg.requests + 1] }
                  /\ pc' = [pc EXCEPT ![r] = awaitResponse]
                  /\ log' = [log EXCEPT ![r] = [lg EXCEPT !.requests = @ + 1]]
                  /\ UNCHANGED << results, ci, timer, hist, elapsed >>

\* calculateLivabilityScore(lat, lng, address) is called; a caller calls again
\* only after its previous call has returned.  The locals of the call start
\* empty.
StartRun(r, o) ==
    /\ pc[r] \in { "idle", "done" }
    /\ calls[r] > 0
    /\ calls' = [calls EXCEPT ![r] = @ - 1]
    /\ pc' = [pc EXCEPT ![r] = "check"]
    /\ origin' = [origin EXCEPT ![r] = o]
    /\ ci' = [ci EXCEPT ![r] = 1]
    /\ attempt' = [attempt EXCEPT ![r] = 0]
    /\ results' = [results EXCEPT ![r] = << >>]
    /\ output' = [output EXCEPT ![r] = << >>]
    /\ log' = [log EXCEPT ![r] = NewLog]
    /\ hist' = [hist EXCEPT ![r] = << >>]
    /\ elapsed' = [elapsed EXCEPT ![r] = 0]
    /\ UNCHANGED << store, world, pois, timer, inflight, fetched, gaveUp, written, ret, budget, ncat, probe >>

\* fetchCategoryWithRetry is entered for the next category: the cache
\* pre-check and, on a miss, the first iteration of the loop.
EnterCategory(r) ==
    /\ pc[r] = "check"
    /\ LET g == get(store, runKey(r))
       IN  IF g.found
             THEN /\ Return(r, g.store, g.data, TRUE, "precheck", NewLog)
                  /\ UNCHANGED << attempt, inflight, gaveUp >>
             ELSE Attempt(r, g.store, 0, NewLog)
    /\ UNCHANGED << world, pois, origin, output, fetched, written, ret, budget, calls, ncat, probe >>

\* The request of run r is answered with the given outcome.
Respond(r, status) ==
    /\ pc[r] = "inflight"
    /\ \E req \in inflight :
        /\ req.run = r
        /\ inflight' = inflight \ { req }
        /\ IF responseOk(status)
             THEN /\ \E st \in queryOverpassAPIStore(store, runKey(r), TRUE,
                                                     world[category(r)]) :
                        Return(r, st, world[category(r)], FALSE, "network", log[r])
                  /\ fetched' = fetched \cup { runKey(r) }
                  /\ UNCHANGED << attempt, budget, gaveUp >>
             ELSE /\ budget > 0
                  /\ budget' = budget - 1
                  /\ store' \in queryOverpassAPIStore(store, runKey(r), FALSE, << >>)
                  /\ UNCHANGED << fetched, attempt >>
                  /\ Caught(r, attempt[r], errorMessage(status), status, log[r])
    /\ UNCHANGED << world, pois, origin, output, written, ret, calls, ncat, probe >>

\* The timer of a pending delay() has run down: the loop retries after a
\* backoff, or moves on after the inter-category delay.
Wake(r) ==
    /\ pc[r] \in { "backoff", "delay" }
    /\ timer[r] = 0
    /\ IF pc[r] = "backoff"
         THEN Attempt(r, store, attempt[r] + 1, log[r])
         ELSE /\ pc' = [pc EXCEPT ![r] = nextPosition(r)]
              /\ ci' = [ci EXCEPT ![r] = nextIndex(r)]
              /\ UNCHANGED << store, attempt, timer, results, inflight, log, hist, elapsed,
                              gaveUp >>
    /\ UNCHANGED << world, pois, origin, output, fetched, written, ret, budget, calls, ncat, probe >>

\* The results are aggregated and the call returns.
Aggregate(r) ==
    /\ pc[r] = "aggregate"
    /\ output' = [output EXCEPT ![r] =
                     << aggregate(results[r], pois, origin[r][1], origin[r][2]) >>]
    /\ pc' = [pc EXCEPT ![r] = "done"]
    /\ UNCHANGED << store, world, pois, origin, ci, attempt, timer, results, inflight,
                    log, hist, elapsed, fetched, gaveUp, written, ret, budget, calls, ncat, probe >>

\* Time passes by d: entries age (an expired entry stays expired whatever its
\* age, so ages stop at ttl + 1) and pending timers run down.
ageBy(st, d) ==
    [k \in DOMAIN st |->
        IF st[k].valid THEN [st[k] EXCEPT !.age = Min(@ + d, st[k].ttl + 1)] ELSE st[k]]

Sleeping == { r \in Runs : pc[r] \in { "backoff", "delay" } /\ timer[r] > 0 }

\* Time passes until the next pending timer is due.
Tick ==
    /\ Sleeping # {}
    /\ LET d == CHOOSE x \in { timer[r] : r \in Sleeping } :
                    \A r \in Sleeping : x <= timer[r]
       IN  /\ store' = ageBy(store, d)
           /\ timer' = [r \in Runs |-> Max(0, timer[r] - d)]
           /\ elapsed' = [r \in Runs |-> Min(elapsed[r] + d, InterCategoryDelay)]
    /\ UNCHANGED << world, pois, pc, origin, ci, attempt, results, output, inflight,
                    log, hist, fetched, gaveUp, written, ret, budget, calls, ncat, probe >>

\* No call is in progress and time passes up to the last instant at which
\* some entry is still valid, or the first at which it is expired.
Idle ==
    /\ \A r \in Runs : pc[r] \in { "idle", "done" }
    /\ \E k \in DOMAIN store :
        \E d \in { store[k].ttl - store[k].age, store[k].ttl - store[k].age + 1 } :
            /\ store[k].valid
            /\ d > 0
            /\ store' = ageBy(store, d)
            /\ written' = ageBy(written, d)
    /\ UNCHANGED << world, pois, pc, origin, ci, attempt, timer, results, output, inflight,
                    log, hist, elapsed, fetched, gaveUp, ret, budget, calls, ncat, probe >>

----------------------------------------------------------------------------
(* Direct use of the cache: set, get and delete called with chosen          *)
(* arguments.  written remembers, for each key, the entry last written and  *)
(* not deleted since (with its age); ret is what the last get returned.     *)

CacheKey(n) == generateKey(n, toFixed3(Origins1[1]), toFixed3(Origins1[2]))

CacheData == { << >>, << Clinic >> }

Ttls == { defaultTTL, FacilityTTL }

\* What written remembers of an entry, and whether queryOverpassAPI wrote it
Remembered(e, facility) ==
    [valid |-> e.valid, hasData |-> e.hasData, data |-> e.data, age |-> e.age,
     ttl |-> e.ttl, facility |-> facility]

\* Entries of the record that prune() evicted while still valid are dropped.
Keep(w, st) == Restrict(w, { k \in DOMAIN w : k \in DOMAIN st \/ Expired(w[k]) })

orchestratorVars ==
    << world, pois, pc, origin, ci, attempt, timer, results, output, inflight,
       log, hist, elapsed, fetched, gaveUp, calls, ncat >>

\* cacheService.set(key, data, ttl); budget caps the writes explored
CacheSet(key, data, ttl) ==
    /\ budget > 0
    /\ budget' = budget - 1
    /\ \/ \E st \in SetWritten(store, key, data, ttl) :
            /\ store' = st
            /\ written' = Keep(Put(written, key, Remembered(st[key], FALSE)), st)
       \/ \E st \in SetNotWritten(store) :
            /\ store' = st
            /\ written' = Keep(written, st)
    /\ UNCHANGED ret
    /\ UNCHANGED << orchestratorVars, probe >>

\* queryOverpassAPI called for a query with the given key; the server
\* answers with data when a request is made.
CacheQuery(key, data) ==
    LET g == get(store, key)
    IN  /\ budget > 0
        /\ budget' = budget - 1
        /\ IF g.found \/ g.undefined
             THEN /\ store' = g.store
                  /\ UNCHANGED written
             ELSE \E st \in queryOverpassAPIStore(g.store, key, TRUE, data) :
                    /\ store' = st
                    /\ written' = IF key \in DOMAIN st
                                    THEN Keep(Put(written, key, Remembered(st[key], TRUE)), st)
                                    ELSE Keep(written, st)
        /\ UNCHANGED ret
        /\ UNCHANGED << orchestratorVars, probe >>

\* cacheService.get(key)
CacheGet(key) ==
    LET g == get(store, key)
    IN  /\ store' = g.store
        /\ ret' = << [ found |-> g.found, data |-> g.data,
                       removed |-> key \notin DOMAIN g.store,
                       had |-> key \in DOMAIN written,
                       facility |-> key \in DOMAIN written /\ written[key].facility,
                       entry |-> IF key \in DOMAIN written THEN written[key].data
                                 ELSE << >>,
                       late |-> IF key \in DOMAIN written
                                  THEN written[key].age - written[key].ttl ELSE 0 ] >>
        /\ UNCHANGED << written, budget >>
        /\ UNCHANGED << orchestratorVars, probe >>

\* cacheService.delete(key)
CacheDelete(key) ==
    /\ store' = delete(store, key)
    /\ written' = removeItem(written, key)
    /\ UNCHANGED << ret, budget >>
    /\ UNCHANGED << orchestratorVars, probe >>

\* No contribution has been computed.
\* No pure function has been applied yet.  distance, category, contribution:
\* a call of calculateDistanceContribution; elements, bucket, at, facilities:
\* a call of processFacilities; again: the dedup passes applied to its output;
\* tags, bucket, actual: the classification of an element with these tags;
\* sums, counts, subscores, overall: a call of calculateSubScores and the
\* overall score computed from its result; facility, custom, before, after:
\* one facility accumulated into the counts and sums.
NoProbe ==
    [distance |-> 0, category |-> "", contribution |-> 0,
     elements |-> << >>, bucket |-> "", at |-> << 0, 0 >>, facilities |-> << >>,
     again |-> << >>, passes |-> 0, tags |-> << >>, actual |-> "",
     scored |-> FALSE, sums |-> ZeroCounts, counts |-> ZeroCounts,
     subscores |-> [services |-> 0, mobility |-> 0, safety |-> 0, environment |-> 0],
     overall |-> 0,
     accumulated |-> FALSE, custom |-> FALSE,
     facility |-> [category |-> "", contribution |-> 0, tags |-> << >>],
     before |-> [counts |-> ZeroCounts, scores |-> ZeroCounts],
     after |-> [counts |-> ZeroCounts, scores |-> ZeroCounts],
     step |-> FALSE, acc |-> << >>, unique |-> << >>]

\* localStorage without items of the cache
EmptyStores == { << >> }

\* The state after the module is loaded, localStorage holding one of the
\* given stores.
InitWith(callsOf, failures, n, worlds, poiSets, stores) ==
    /\ store \in stores
    /\ world \in worlds
    /\ pois \in poiSets
    /\ pc = [r \in Runs |-> "idle"]
    /\ origin = [r \in Runs |-> << 0, 0 >>]
    /\ ci = [r \in Runs |-> 1]
    /\ attempt = [r \in Runs |-> 0]
    /\ timer = [r \in Runs |-> 0]
    /\ results = [r \in Runs |-> << >>]
    /\ output = [r \in Runs |-> << >>]
    /\ inflight = {}
    /\ log = [r \in Runs |-> NewLog]
    /\ hist = [r \in Runs |-> << >>]
    /\ elapsed = [r \in Runs |-> 0]
    /\ fetched = {}
    /\ gaveUp = {}
    /\ written = << >>
    /\ ret = << >>
    /\ budget = failures
    /\ calls = callsOf
    /\ ncat = n
    /\ probe = NoProbe

\* One scoring run, every pattern of network outcomes.
Init ==
    InitWith([r \in Runs |-> IF r = 1 THEN 1 ELSE 0], NumCats * (retries + 1), NumCats,
             Worlds, PoiSets, EmptyStores)

\* Two concurrent scoring runs that share the cache.
InitShared ==
    InitWith([r \in Runs |-> 1], MaxFailures, SharedCats, Worlds, PoiSets, EmptyStores)

\* Successive scoring runs of one caller.
InitNext ==
    InitWith([r \in Runs |-> IF r = 1 THEN MaxCalls ELSE 0],
             retries + 1, NextCats, Worlds, PoiSets, EmptyStores)

Next ==
    \/ \E r \in Runs, o \in Origins : StartRun(r, o)
    \/ \E r \in Runs : EnterCategory(r)
    \/ \E r \in Runs, status \in Outcomes : Respond(r, status)
    \/ \E r \in Runs : Wake(r)
    \/ \E r \in Runs : Aggregate(r)
    \/ Tick
    \/ Idle

Spec == Init /\ [][Next]_vars

SpecShared == InitShared /\ [][Next]_vars

SpecNext == InitNext /\ [][Next]_vars

\* localStorage as an earlier run at the same location leaves it when the
\* first categories were given up or their writes failed: the entries of the
\* remaining categories, written a minute ago.
LiveStores ==
    { [k \in { LocationKey(CategoryOrder[n], Origins1[1], Origins1[2]) :
                  n \in (LiveFetched + 1)..Len(CategoryOrder) } |->
          Entry(<< >>, 60000, FacilityTTL)] }

\* One scoring run over all the categories of FACILITY_DISTANCES; every
\* request it issues can fail.
InitLive ==
    InitWith([r \in Runs |-> IF r = 1 THEN 1 ELSE 0], LiveFetched * (retries + 1),
             Len(CategoryOrder), { NoElements }, { << >> }, LiveStores)

\* How a request of that run ends
LiveOutcomes == { 200, 429, 503 }

\* The run from its call to its return.
NextLive ==
    \/ \E r \in Runs : StartRun(r, Origins1)
    \/ \E r \in Runs : EnterCategory(r)
    \/ \E r \in Runs, status \in LiveOutcomes : Respond(r, status)
    \/ \E r \in Runs : Wake(r)
    \/ \E r \in Runs : Aggregate(r)
    \/ Tick

\* Every network attempt eventually completes, time passes, and the event
\* loop runs every continuation that is ready.
Fairness ==
    /\ \A r \in Runs : WF_vars(EnterCategory(r))
    /\ \A r \in Runs : WF_vars(\E status \in LiveOutcomes : Respond(r, status))
    /\ \A r \in Runs : WF_vars(Wake(r))
    /\ \A r \in Runs : WF_vars(Aggregate(r))
    /\ WF_vars(Tick)

SpecLive == InitLive /\ [][NextLive]_vars /\ Fairness

\* The keys a run can use.
RunKeys ==
    { LocationKey(CategoryOrder[n], o[1], o[2]) : n \in 1..NumCats, o \in Origins }

\* localStorage as a damaged cache leaves it: no item, or under the keys of
\* the run items JSON.parse rejects, or items whose data member is lost.
DamagedStores ==
    { << >>,
      [k \in RunKeys |-> CorruptItem],
      [k \in RunKeys |-> MissingData(0, FacilityTTL)],
      [k \in { LocationKey(CategoryOrder[1], o[1], o[2]) : o \in Origins } |->
          MissingData(0, FacilityTTL)] }

\* One scoring run over a damaged cache whose writes can fail.
InitFailing ==
    InitWith([r \in Runs |-> IF r = 1 THEN 1 ELSE 0], MaxFailures, NumCats,
             Worlds, PoiSets, DamagedStores)

SpecFailing == InitFailing /\ [][Next]_vars

\* A hospital whose name the education query matches as well: the server
\* returns it for both queries.
MedicalFaculty ==
    El(5, 10015, 20000, ("amenity" :> "hospital") @@ ("name" :> "universitas medika"))

MergeWorlds ==
    { NoElements,
      [NoElements EXCEPT !["health"] = << Clinic >>, !["education"] = << School >>],
      [NoElements EXCEPT !["health"] = << MedicalFaculty >>,
                         !["education"] = << MedicalFaculty >>],
      [NoElements EXCEPT !["health"] = << Clinic, MedicalFaculty >>,
                         !["education"] = << School, MedicalFaculty >>] }

\* The categories a stored custom POI declares: the categories the merge
\* keeps counts for (among them the options of the POI form) and the legacy
\* value "custom".
PoiCategories == CategoryEnum \cup { "custom" }

MergePoiSets ==
    { << >> } \cup
    { << [id |-> 1, name |-> "My Place", category |-> c, lat |-> 10005, lng |-> 20000] >> :
        c \in PoiCategories }

\* One scoring run whose requests all succeed, over map data shared between
\* queries and custom POIs of every declared category.
InitMerge ==
    InitWith([r \in Runs |-> IF r = 1 THEN 1 ELSE 0], 0, MergeCats,
             MergeWorlds, MergePoiSets, EmptyStores)

SpecMerge == InitMerge /\ [][Next]_vars

\* No scoring run; the cache is used directly.
InitCache == InitWith([r \in Runs |-> 0], MaxSets, 0, { NoElements }, { << >> }, EmptyStores)

\* A few keys, every lifetime, time passing between the calls.
NextCache ==
    \/ \E n \in 1..CacheKeys, data \in CacheData, ttl \in Ttls :
            CacheSet(CacheKey(n), data, ttl)
    \/ \E n \in 1..CacheKeys, data \in CacheData : CacheQuery(CacheKey(n), data)
    \/ \E n \in 1..CacheKeys : CacheGet(CacheKey(n))
    \/ \E n \in 1..CacheKeys : CacheDelete(CacheKey(n))
    \/ Idle

SpecCache == InitCache /\ [][NextCache]_vars

\* The key to fill next: the smallest key offered that is absent.
FillKeys ==
    { n \in 1..MaxKeys : CacheKey(n) \notin DOMAIN store
                          /\ \A m \in 1..(n - 1) : CacheKey(m) \in DOMAIN store }

\* Many keys written one after the other within one instant.
NextFill ==
    \/ \E n \in FillKeys : CacheSet(CacheKey(n), << >>, FacilityTTL)
    \/ CacheGet(CacheKey(1))
    \/ CacheDelete(CacheKey(1))

InitFill == InitWith([r \in Runs |-> 0], MaxKeys, 0, { NoElements }, { << >> }, EmptyStores)

SpecFill == InitFill /\ [][NextFill]_vars

----------------------------------------------------------------------------
(* The distance contribution function applied to chosen arguments *)

ProbeCategories == CategoryEnum \cup { "custom" }

ProbeSteps == { 1, 10, 1000 }

cachedVars == << store, written, ret, budget >>

\* calculateDistanceContribution(0, c)
Contribute(c) ==
    /\ probe = NoProbe
    /\ probe' = [probe EXCEPT !.category = c,
                                !.contribution = calculateDistanceContribution(0, c)]
    /\ UNCHANGED << orchestratorVars, cachedVars >>

\* calculateDistanceContribution for the same category at a distance k farther
Farther(k) ==
    /\ probe.category # ""
    /\ probe.distance + k <= MaxProbe
    /\ probe' = [probe EXCEPT
                    !.distance = @ + k,
                    !.contribution =
                        calculateDistanceContribution(probe.distance + k, probe.category)]
    /\ UNCHANGED << orchestratorVars, cachedVars >>

InitDecay == InitWith([r \in Runs |-> 0], 0, 0, { NoElements }, { << >> }, EmptyStores)

NextDecay ==
    \/ \E c \in ProbeCategories : Contribute(c)
    \/ \E k \in ProbeSteps : Farther(k)

SpecDecay == InitDecay /\ [][NextDecay]_vars

----------------------------------------------------------------------------
(* The classifier applied to chosen tags *)

\* Values of the tags the elements classified carry ("" for an absent tag).
Amenities ==
    { "", "school", "police", "restaurant", "hospital", "place_of_worship", "cinema",
      "bench", "bank" }

Names == { "", "Sekolah Polisi", "Klinik Sehat", "Taman Kota", "Halte A" }

Highways == { "", "bus_stop", "street_lamp", "elevator" }

\* The tags object holding the present ones of the three tags.
TagsOf(amenity, name, highway) ==
    LET all == ("amenity" :> amenity) @@ ("name" :> name) @@ ("highway" :> highway)
    IN  Restrict(all, { k \in DOMAIN all : all[k] # "" })

\* The rules of the classifier in the order they are numbered.
RuleOrder ==
    << "education", "police", "market", "health", "transport", "religious",
       "recreation", "walkability", "accessibility", "safety" >>

\* The condition of the rule of a category.
Matches(e, c) ==
    CASE c = "education" -> IsEducation(e)
      [] c = "police" -> IsPolice(e)
      [] c = "market" -> IsMarket(e)
      [] c = "health" -> IsHealth(e)
      [] c = "transport" -> IsTransport(e)
      [] c = "religious" -> IsReligious(e)
      [] c = "recreation" -> IsRecreation(e)
      [] c = "walkability" -> IsWalkability(e)
      [] c = "accessibility" -> IsAccessibility(e)
      [] c = "safety" -> IsSafety(e)

\* The classification, in processFacilities, of an element with the given
\* tags returned by the query of category c.
Classify(tags, c) ==
    /\ probe = NoProbe
    /\ probe' = [probe EXCEPT !.tags = tags, !.bucket = c,
                                !.actual = actualCategory(El(1, 10010, 20000, tags), c)]
    /\ UNCHANGED << orchestratorVars, cachedVars >>

InitClassify == InitWith([r \in Runs |-> 0], 0, 0, { NoElements }, { << >> }, EmptyStores)

NextClassify ==
    \E amenity \in Amenities, name \in Names, highway \in Highways, c \in CategoryEnum :
        Classify(TagsOf(amenity, name, highway), c)

SpecClassify == InitClassify /\ [][NextClassify]_vars

----------------------------------------------------------------------------
(* calculateSubScores applied to chosen category sums *)

\* Category sums in units of 1e-5: 0.2, 1.0, 8.3, 40.0 and the largest.
SumValues == { 20000, 100000, 830000, 4000000, MaxSum }

CountValues == { 0, 3 }

\* calculateSubScores(sums, counts) and the overall score, for sums that are
\* v in the categories of S and 0 elsewhere.
Score(S, v, n) ==
    /\ probe = NoProbe
    /\ LET sums == [c \in CategoryEnum |-> IF c \in S THEN v ELSE 0]
           counts == [c \in CategoryEnum |-> n]
           subscores == calculateSubScores(sums, counts)
       IN  probe' = [probe EXCEPT !.scored = TRUE, !.sums = sums, !.counts = counts,
                                   !.subscores = subscores,
                                   !.overall = overallScore(subscores)]
    /\ UNCHANGED << orchestratorVars, cachedVars >>

InitScores == InitWith([r \in Runs |-> 0], 0, 0, { NoElements }, { << >> }, EmptyStores)

NextScores ==
    \E S \in SUBSET CategoryEnum, v \in SumValues, n \in CountValues : Score(S, v, n)

SpecScores == InitScores /\ [][NextScores]_vars

----------------------------------------------------------------------------
(* One facility accumulated into the counts and sums *)

\* Contributions (units of 1e-3) and tags of the facilities accumulated.
Contributions == { 800, 1234, 8000 }

TagSets ==
    { << >>, ("highway" :> "street_lamp"), ("lit" :> "yes"), ("highway" :> "footway"),
      ("amenity" :> "fire_station") }

\* The counts and sums before the facility: all zero, or 2 and 5.0 each.
Accumulators ==
    { [counts |-> ZeroCounts, scores |-> ZeroCounts],
      [counts |-> [c \in CategoryEnum |-> 2], scores |-> [c \in CategoryEnum |-> 500000]] }

\* One facility of a fulfilled result goes through the body of
\* facilities.forEach.
AccumulateApi(acc, f) ==
    /\ probe = NoProbe
    /\ probe' = [probe EXCEPT !.accumulated = TRUE, !.custom = FALSE, !.facility = f,
                                !.before = acc, !.after = accumulateApi(acc, << f >>)]
    /\ UNCHANGED << orchestratorVars, cachedVars >>

\* One custom facility goes through the body of customFacilities.forEach.
AccumulateCustom(acc, f) ==
    /\ probe = NoProbe
    /\ probe' = [probe EXCEPT !.accumulated = TRUE, !.custom = TRUE, !.facility = f,
                                !.before = acc, !.after = accumulateCustom(acc, << f >>)]
    /\ UNCHANGED << orchestratorVars, cachedVars >>

InitAccumulate == InitWith([r \in Runs |-> 0], 0, 0, { NoElements }, { << >> }, EmptyStores)

NextAccumulate ==
    \/ \E acc \in Accumulators, c \in CategoryEnum, x \in Contributions, t \in TagSets :
            AccumulateApi(acc, [category |-> c, contribution |-> x, tags |-> t])
    \/ \E acc \in Accumulators, c \in CategoryEnum, x \in Contributions :
            AccumulateCustom(acc, [category |-> c, contribution |-> x,
                                   tags |-> [k \in {"custom"} |-> "true"]])

SpecAccumulate == InitAccumulate /\ [][NextAccumulate]_vars

----------------------------------------------------------------------------
(* processFacilities applied to chosen element lists *)

\* Two schools and a library within 50 m of each other, a clinic just
\* beyond 1000 m of the first origin, and a clinic far beyond.
PrimarySchool == El(6, 10012, 20000, ("amenity" :> "school") @@ ("name" :> "SD Negeri 1"))
Library       == El(7, 10011, 20000, ("amenity" :> "library") @@ ("name" :> "Pustaka"))
LibrarySchool == El(8, 10010, 20000, ("amenity" :> "school") @@ ("name" :> "SD Pustaka"))
EdgeClinic    == El(9, 10091, 20005, ("amenity" :> "clinic"))

Pool == { PrimarySchool, Library, LibrarySchool, EdgeClinic, FarClinic }

\* The lists of at most n different elements of S, in every order.
RECURSIVE Lists(_, _)
Lists(S, n) ==
    IF n = 0 THEN { << >> }
    ELSE { << >> } \cup
         UNION { { << x >> \o l : l \in Lists(S \ { x }, n - 1) } : x \in S }

Buckets == { "health", "education" }

\* The two reduce passes of processFacilities: proximity and name, then id.
dedup(facilities) == finalFacilities(<< >>, uniqueFacilities(<< >>, facilities))

\* processFacilities(elements, c, o.lat, o.lng)
Process(elements, c, o) ==
    /\ probe = NoProbe
    /\ probe' = [probe EXCEPT !.elements = elements, !.bucket = c, !.at = o,
                                !.facilities = processFacilities(elements, c, o[1], o[2]),
                                !.passes = 1]
    /\ UNCHANGED << orchestratorVars, cachedVars >>

\* The two dedup passes applied to the output of processFacilities.
Dedup ==
    /\ probe.passes = 1
    /\ probe' = [probe EXCEPT !.again = dedup(probe.facilities), !.passes = 2]
    /\ UNCHANGED << orchestratorVars, cachedVars >>

\* The same school mapped twice, at one position.
SchoolWay == El(10, 10012, 20000, ("amenity" :> "school") @@ ("name" :> "SD Negeri 1"))

StepPool == Pool \cup { SchoolWay }

\* One call of the callback of the proximity + name reduce inside
\* processFacilities(elements, c, o.lat, o.lng): the n-th facility in range
\* meets the facilities retained from those before it.
Reduce(elements, c, o, n) ==
    /\ probe = NoProbe
    /\ LET facilities == inRange(elements, c, o[1], o[2])
       IN  /\ n \in 1..Len(facilities)
           /\ LET acc == uniqueFacilities(<< >>, SubSeq(facilities, 1, n - 1))
              IN  probe' = [probe EXCEPT !.elements = elements, !.bucket = c, !.at = o,
                                          !.step = TRUE, !.acc = acc,
                                          !.facility = facilities[n],
                                          !.unique = dedupStep(acc, facilities[n])]
    /\ UNCHANGED << orchestratorVars, cachedVars >>

InitProcess == InitWith([r \in Runs |-> 0], 0, 0, { NoElements }, { << >> }, EmptyStores)

NextProcess ==
    \/ \E elements \in Lists(Pool, MaxElements), c \in Buckets, o \in Origins :
            Process(elements, c, o)
    \/ Dedup
    \/ \E elements \in Lists(StepPool, MaxElements), c \in Buckets, o \in Origins :
            \E n \in 1..MaxElements : Reduce(elements, c, o, n)

SpecProcess == InitProcess /\ [][NextProcess]_vars

----------------------------------------------------------------------------
(* Properties of the fetch orchestrator *)

\* C1: for every pattern of fetch outcomes calculateLivabilityScore returns a
\* result and never raises; a category whose attempts all fail is pushed as
\* an empty result and the remaining categories are still processed.
C1_NeverRaises ==
    \A r \in Runs :
        /\ pc[r] # "raised"
        /\ \A n \in 1..Len(hist[r]) :
              hist[r][n] = "giveup" =>
                  /\ results[r][n].category = categories[n]
                  /\ results[r][n].facilities = << >>
        /\ pc[r] = "done" =>
              /\ Len(results[r]) = Len(categories)
              /\ output[r] # << >>

\* A call has returned after giving up one category and fetching another.
C1_Witness ==
    \E r \in Runs :
        /\ pc[r] = "done"
        /\ output[r] # << >>
        /\ \E n, m \in 1..Len(hist[r]) : hist[r][n] = "giveup" /\ hist[r][m] = "network"

C3_AtMostFourAttempts ==
    /\ [](\A r \in Runs :
            /\ log[r].requests <= 4
            /\ log[r].how = "giveup" => log[r].requests = 4
            /\ log[r].how \in { "network", "giveup" } =>
                  /\ pc[r] \notin { "inflight", "backoff" }
                  /\ \A req \in inflight : req.run # r)
    /\ [][\A r \in Runs :
            /\ (pc[r] = "inflight" /\ pc'[r] # "inflight" /\ budget' = budget)
                  => log'[r].how = "network"
            /\ (pc[r] = "inflight" /\ pc'[r] # "inflight" /\ budget' < budget
                  /\ log[r].requests < 4)
                  => pc'[r] = "backoff" /\ log'[r].how = "pending"
            /\ (pc[r] = "inflight" /\ pc'[r] # "inflight" /\ budget' < budget
                  /\ log[r].requests = 4)
                  => log'[r].how = "giveup"
            /\ (pc[r] = "backoff" /\ pc'[r] # "backoff")
                  => pc'[r] = "inflight" /\ log'[r].requests = log[r].requests + 1]_vars

\* A category has been given up after its 4th request.
C3_Witness ==
    \E r \in Runs : log[r].how = "giveup" /\ log[r].requests = 4 /\ log[r].wait = 6000

C5_DelayAfterNetworkFetch ==
    \A r \in Runs :
        ( /\ pc[r] \in { "check", "inflight", "backoff" }
          /\ ci[r] > 1
          /\ Len(hist[r]) = ci[r] - 1
          /\ hist[r][ci[r] - 1] = "network" )
        => elapsed[r] >= 2000

\* The first request of a category is in flight and the previous category
\* was fetched from the network.
C5_Witness ==
    \E r \in Runs :
        /\ pc[r] = "inflight"
        /\ ci[r] = 2
        /\ hist[r] = << "network" >>
        /\ log[r].requests = 1
        /\ elapsed[r] = 2000

\* C6 as stated: whenever the elements of a category are served from the
\* cache, the run issues no network request for that category and applies
\* neither a backoff nor the inter-category delay, also when another run
\* sharing the cache writes the entry while this run is in progress.
C6_Original ==
    \A r \in Runs :
        log[r].how \in { "precheck", "cacheAPI" } =>
            /\ log[r].requests = 0
            /\ log[r].wait = 0
            /\ log[r].delay = 0

\* C7: a cache entry for a category key is written only after a request for
\* that key got a success response, and a failed attempt leaves the cache
\* unchanged; so a key that was given up is absent and is requested again by
\* the next run.
C7_WrittenOnlyAfterSuccess ==
    /\ [](\A k \in DOMAIN store : k \in fetched)
    /\ [](\A k \in gaveUp : k \notin fetched => k \notin DOMAIN store)
    /\ [][budget' < budget => store' = store]_vars

\* A request is in flight for a key that an earlier run gave up.
C7_Witness ==
    \E req \in inflight :
        LET k == LocationKey(req.category, origin[req.run][1], origin[req.run][2])
        IN  /\ k \in gaveUp
            /\ k \notin DOMAIN store
            /\ budget = 0

\* C8 as stated: two requests for the same category whose origins differ but
\* round to the same 3-decimal coordinates derive the same cache key, so the
\* second is served from the unexpired entry the first wrote and makes no
\* request.
C8_Original ==
    \A r \in Runs :
        pc[r] = "inflight" =>
            \A o \in Origins :
                ( /\ o # origin[r]
                  /\ toFixed3(o[1]) = toFixed3(origin[r][1])
                  /\ toFixed3(o[2]) = toFixed3(origin[r][2]) )
                => LET k == LocationKey(category(r), o[1], o[2])
                   IN  ~(k \in DOMAIN store /\ ~Expired(store[k]))

----------------------------------------------------------------------------
(* Properties of the cache *)

\* C9 as stated: after any sequence of set, get and delete the number of
\* entries the cache holds never exceeds maxSize = 100.
C9_Original == Cardinality(DOMAIN store) <= 100

\* C10: an entry written at time t with lifetime ttl is returned unchanged by
\* get at every time up to t + ttl unless it was overwritten or deleted, and
\* at every later time get returns null and the entry is removed; the
\* entries queryOverpassAPI writes have a lifetime of 30 minutes.
C10_ValidUntilTtl ==
    /\ ret # << >> /\ ret[1].had =>
          /\ ret[1].late <= 0 => ret[1].found /\ ret[1].data = ret[1].entry
          /\ ret[1].late > 0 => ~ret[1].found /\ ret[1].removed
    /\ \A k \in DOMAIN written : written[k].facility => written[k].ttl = 30 * 60 * 1000

\* get was called at exactly t + ttl on an entry queryOverpassAPI wrote.
C10_Witness ==
    /\ ret # << >>
    /\ ret[1].had
    /\ ret[1].late = 0
    /\ ret[1].found
    /\ ret[1].entry = << Clinic >>
    /\ ret[1].facility

\* C11: in every interleaving of two runs that share the cache, each value
\* read from the cache under a key is exactly the element list a successful
\* fetch for that key returned; races cause redundant fetches or duplicate
\* writes only.
C11_CacheValuesWhole ==
    /\ \A k \in DOMAIN store :
          /\ store[k].valid
          /\ k \in fetched
          /\ \E n \in 1..Len(categories), o \in Origins :
                /\ k = LocationKey(categories[n], o[1], o[2])
                /\ store[k].data = world[categories[n]]
    /\ \A r \in Runs :
          \A n \in 1..Len(hist[r]) :
              hist[r][n] \in { "precheck", "cacheAPI" } =>
                  /\ runKey(r) \in fetched \/ ci[r] # n
                  /\ results[r][n].facilities =
                        processFacilities(world[categories[n]], categories[n],
                                          origin[r][1], origin[r][2])

\* Two runs at the same origin: one fetched the category from the network,
\* the other read it from the cache.
C11_Witness ==
    \E r1, r2 \in Runs :
        /\ r1 # r2
        /\ origin[r1] = origin[r2]
        /\ world[categories[1]] # << >>
        /\ Len(hist[r1]) > 0 /\ hist[r1][1] = "network"
        /\ Len(hist[r2]) > 0 /\ hist[r2][1] \in { "precheck", "cacheAPI" }

\* C12: a failing cache never changes the computed score: with a failed or
\* corrupted read or a failed write, the run raises no error and, when no
\* request fails, returns for every category the facilities it would return
\* with a working empty cache.
C12_Original ==
    \A r \in Runs :
        /\ pc[r] # "raised"
        /\ (pc[r] = "done" /\ budget = MaxFailures) =>
              /\ output[r] # << >>
              /\ \A n \in 1..Len(categories) :
                    results[r][n].facilities =
                        processFacilities(world[categories[n]], categories[n],
                                          origin[r][1], origin[r][2])

C14_Original ==
    \A r \in Runs :
        output[r] # << >> =>
            \A n, m \in 1..Len(output[r][1].facilities) :
                output[r][1].facilities[n].id = output[r][1].facilities[m].id => n = m

----------------------------------------------------------------------------
(* Properties of the facility processor *)

\* C15: the output of processFacilities holds no two facilities that are
\* duplicates under the proximity rule (less than 50 m apart and similar
\* names), for every input list and every order of its elements.
C15_Original ==
    probe.passes >= 1 =>
        \A n, m \in 1..Len(probe.facilities) :
            n # m => ~isDuplicate(probe.facilities[n], probe.facilities[m])

\* C16: deduplication is idempotent: the two dedup passes applied to the
\* output of processFacilities return that output unchanged.
C16_Original ==
    probe.passes = 2 => probe.again = probe.facilities

\* C17: every facility processFacilities retains has a contribution of at
\* least 0.1 x maxContribution of its classified category.
C17_Original ==
    probe.passes >= 1 =>
        \A n \in 1..Len(probe.facilities) :
            probe.facilities[n].contribution >=
                (decayConfig[probe.facilities[n].category].maxContribution * 1000) \div 10

\* C18: every element whose computed distance from the origin exceeds the
\* maximum radius of its classified category is absent from the output of
\* processFacilities, and every retained facility has a distance between 0
\* and that radius.
C18_Original ==
    probe.passes >= 1 =>
        /\ \A n \in 1..Len(probe.elements) :
              LET e == probe.elements[n]
                  cat == actualCategory(e, probe.bucket)
              IN  calculateDistance(probe.at[1], probe.at[2], e.lat, e.lon)
                        > decayConfig[cat].maxDistance * 10
                    => \A m \in 1..Len(probe.facilities) :
                          probe.facilities[m].id # << cat, e.id >>
        /\ \A m \in 1..Len(probe.facilities) :
              /\ probe.facilities[m].distance >= 0
              /\ probe.facilities[m].distance
                    <= decayConfig[probe.facilities[m].category].maxDistance

\* C19: the classifier returns the category of the lowest-numbered rule
\* that matches, in the order education, police, market, health, transport,
\* religious, recreation, walkability, accessibility, safety, and the query
\* bucket when no rule matches; an element matching the education rule and
\* the police rule classifies as education.
C19_LowestRuleWins ==
    probe.actual # "" =>
        LET e == El(1, 10010, 20000, probe.tags)
            hits == { n \in 1..Len(RuleOrder) : Matches(e, RuleOrder[n]) }
        IN  /\ hits = {} => probe.actual = probe.bucket
            /\ hits # {} =>
                  probe.actual = RuleOrder[CHOOSE n \in hits : \A m \in hits : n <= m]
            /\ (IsEducation(e) /\ IsPolice(e)) => probe.actual = "education"

\* A police station named "Sekolah Polisi", returned by the police query,
\* has been classified as education.
C19_Witness ==
    /\ probe.actual = "education"
    /\ probe.bucket = "police"
    /\ probe.tags = TagsOf("police", "Sekolah Polisi", "")

\* C27: when the proximity + name reduce of processFacilities finds that the
\* incoming facility duplicates a retained one, exactly one of the two is
\* kept, in the retained one's place: the one with the higher contribution,
\* the retained one on a tie.  The other retained facilities stay as they
\* are and the number of retained facilities does not grow.
C27_KeepHigherContribution ==
    LET hits == { n \in 1..Len(probe.acc) : isDuplicate(probe.acc[n], probe.facility) }
    IN  ( probe.step /\ hits # {} ) =>
            LET x == CHOOSE n \in hits : \A m \in hits : n <= m
                existing == probe.acc[x]
                incoming == probe.facility
                winner == IF incoming.contribution > existing.contribution
                            THEN incoming ELSE existing
            IN  /\ Len(probe.unique) = Len(probe.acc)
                /\ probe.unique[x] = winner
                /\ \A m \in 1..Len(probe.acc) : m # x => probe.unique[m] = probe.acc[m]
                /\ Cardinality({ m \in 1..Len(probe.unique) :
                                    probe.unique[m] \in { existing, incoming } }) = 1

\* The incoming facility duplicates a retained one of equal contribution:
\* the retained one stays.
C27_Witness ==
    /\ probe.step
    /\ \E n \in 1..Len(probe.acc) :
        /\ isDuplicate(probe.acc[n], probe.facility)
        /\ probe.acc[n].contribution = probe.facility.contribution
        /\ probe.acc[n] # probe.facility
        /\ probe.unique = probe.acc

----------------------------------------------------------------------------
(* Properties of the score aggregation *)

\* C21: for any non-negative category sums, each of the four sub-scores is
\* an integer between 0 and 100, and the overall score computed from them
\* lies between 0 and 100.
C21_ScoresWithinRange ==
    probe.scored =>
        /\ \A k \in DOMAIN probe.subscores : probe.subscores[k] \in 0..100
        /\ probe.overall >= 0
        /\ probe.overall <= 100 * 100

\* Every category sum is large: every sub-score is capped at 100 and the
\* overall score is 100.
C21_Witness ==
    /\ probe.scored
    /\ \A c \in CategoryEnum : probe.sums[c] = MaxSum
    /\ \A k \in DOMAIN probe.subscores : probe.subscores[k] = 100
    /\ probe.overall = 100 * 100

\* C28: the sub-scores and the overall score equal the reference formulas:
\* services = min(100, round(1.2 health + 1.0 education + 0.8 market
\* + 0.8 religious)), mobility = min(100, round(1.5 transport
\* + 0.5 walkability)), safety = min(100, round(0.6 safety + 2.0 police
\* + 0.8 health + 1.0 accessibility)), environment = min(100,
\* round(2.5 recreation)), overall = 0.3 services + 0.25 mobility
\* + 0.25 safety + 0.2 environment, the terms being the category sums and
\* not the counts.
C28_ReferenceFormulas ==
    probe.scored =>
        LET sum == probe.sums
            Rounded(tenths) == (tenths + 500000) \div 1000000
            services == Min(100, Rounded(12 * sum["health"] + 10 * sum["education"]
                                           + 8 * sum["market"] + 8 * sum["religious"]))
            mobility == Min(100, Rounded(15 * sum["transport"] + 5 * sum["walkability"]))
            safety == Min(100, Rounded(6 * sum["safety"] + 20 * sum["police"]
                                         + 8 * sum["health"] + 10 * sum["accessibility"]))
            environment == Min(100, Rounded(25 * sum["recreation"]))
        IN  /\ probe.subscores.services = services
            /\ probe.subscores.mobility = mobility
            /\ probe.subscores.safety = safety
            /\ probe.subscores.environment = environment
            /\ probe.overall = 30 * services + 25 * mobility + 25 * safety + 20 * environment

\* Every category sum is 1.0 and every count is 3: the sub-scores are 4, 2,
\* 4 and 3 (2.5 rounds up) and the overall score is 3.3.
C28_Witness ==
    /\ probe.scored
    /\ \A c \in CategoryEnum : probe.sums[c] = 100000 /\ probe.counts[c] = 3
    /\ probe.subscores =
          [services |-> 4, mobility |-> 2, safety |-> 4, environment |-> 3]
    /\ probe.overall = 330

\* C22: accumulating one API-sourced walkability facility with contribution
\* x adds 0.25 x to the walkability sum, adds the same 0.25 x to the safety
\* sum if and only if its tags have highway=street_lamp or lit=yes,
\* increments only the walkability count, and leaves every other category
\* sum and count unchanged.
C22_WalkabilitySpillover ==
    (probe.accumulated /\ ~probe.custom /\ probe.facility.category = "walkability") =>
        LET x == probe.facility.contribution
            t == probe.facility.tags
            lighting == \/ "highway" \in DOMAIN t /\ t["highway"] = "street_lamp"
                        \/ "lit" \in DOMAIN t /\ t["lit"] = "yes"
        IN  /\ probe.after.scores["walkability"] = probe.before.scores["walkability"] + 25 * x
            /\ probe.after.scores["safety"] =
                  probe.before.scores["safety"] + (IF lighting THEN 25 * x ELSE 0)
            /\ probe.after.counts["walkability"] = probe.before.counts["walkability"] + 1
            /\ \A c \in CategoryEnum \ { "walkability" } :
                  probe.after.counts[c] = probe.before.counts[c]
            /\ \A c \in CategoryEnum \ { "walkability", "safety" } :
                  probe.after.scores[c] = probe.before.scores[c]

\* A street lamp classified as walkability with contribution 8 has added 2.0
\* to the walkability sum and 2.0 to the safety sum.
C22_Witness ==
    /\ probe.accumulated /\ ~probe.custom
    /\ probe.facility =
          [category |-> "walkability", contribution |-> 8000,
           tags |-> ("highway" :> "street_lamp")]
    /\ probe.before.scores = ZeroCounts
    /\ probe.after.scores["walkability"] = 200000
    /\ probe.after.scores["safety"] = 200000

\* C23: the category-specific dampening is applied to custom facilities
\* exactly as to API-sourced ones: a custom facility of category walkability
\* adds 0.25 x its contribution to the walkability sum, and one of category
\* safety adds 0.25 x its contribution to the safety sum.
C23_Original ==
    (probe.accumulated /\ probe.custom
        /\ probe.facility.category \in { "walkability", "safety" }) =>
        probe.after.scores[probe.facility.category] =
            probe.before.scores[probe.facility.category] + 25 * probe.facility.contribution

\* C29: every facility of the returned list, custom ones included, carries
\* the contribution calculateDistanceContribution gives for its unrounded
\* distance and its own final category; a custom POI declared "custom" and
\* mapped to recreation is scored with recreation's configuration.
C29_Original ==
    \A r \in Runs :
        output[r] # << >> =>
            \A n \in 1..Len(output[r][1].facilities) :
                LET f == output[r][1].facilities[n]
                    distance == calculateDistance(origin[r][1], origin[r][2], f.lat, f.lng)
                IN  f.contribution = calculateDistanceContribution(distance, f.category)

----------------------------------------------------------------------------
(* Properties of the retry schedule *)

\* C24 as stated: on a failure identified as a rate-limit response, the
\* backoff before the next attempt is strictly longer than the backoff the
\* default schedule gives for the same attempt index, for every attempt index
\* that is followed by a retry.
C24_Original ==
    \A r \in Runs :
        ( /\ pc[r] = "backoff"
          /\ log[r].status = 429 )
        => log[r].wait > BackoffUnit * (attempt[r] + 1)

C30_Original ==
    /\ [][ \A r \in Runs :
             ( pc[r] = "backoff" /\ pc'[r] = "inflight" )
             => ( timer[r] = 0 /\ log[r].wait >= 2000 ) ]_vars
    /\ [] ( \A r \in Runs :
              ( /\ pc[r] = "inflight"
                /\ log[r].requests = 1
                /\ ci[r] > 1
                /\ Len(hist[r]) = ci[r] - 1
                /\ hist[r][ci[r] - 1] \in { "network", "giveup" } )
              => elapsed[r] >= 2000 )

\* C26: every scoring run eventually returns, provided each network attempt
\* eventually completes.  No category is attempted more than 4 times, and
\* the categories are processed once each in the order health, education,
\* market, transport, walkability, recreation, safety, accessibility, police,
\* religious: the n-th result is that of the n-th category, and a returned
\* run holds exactly 10 results.
C26_RunReturns ==
    /\ \A r \in Runs : ( pc[r] = "check" ) ~> ( pc[r] = "done" )
    /\ [] ( LET order == << "health", "education", "market", "transport", "walkability",
                            "recreation", "safety", "accessibility", "police",
                            "religious" >>
            IN  \A r \in Runs :
                  /\ log[r].requests <= 4
                  /\ attempt[r] <= 3
                  /\ Len(results[r]) <= 10
                  /\ \A n \in 1..Len(results[r]) : results[r][n].category = order[n]
                  /\ pc[r] \in { "check", "inflight", "backoff" }
                        => ( Len(results[r]) = ci[r] - 1 /\ category(r) = order[ci[r]] )
                  /\ pc[r] \in { "aggregate", "done" } => Len(results[r]) = 10 )

\* The run has returned with a result for each of the 10 categories: one
\* category was given up after its fourth failed attempt, the others were
\* served from the cache.
C26_Witness ==
    \E r \in Runs :
        /\ pc[r] = "done"
        /\ Len(results[r]) = 10
        /\ Len(hist[r]) = 10
        /\ \E n \in 1..10 : hist[r][n] = "giveup"
        /\ \E n \in 1..10 : hist[r][n] = "precheck"
        /\ log[r].requests = 0
        /\ budget = 0

----------------------------------------------------------------------------
(* Properties of the distance contribution function *)

\* C20: for every category and distance d, the contribution is at least
\* 0.1 x maxContribution when 0 <= d <= maxDistance, is 0 when d > maxDistance,
\* equals maxContribution at d = 0 and 0.1 x maxContribution at
\* d = maxDistance, and does not increase as d increases.
C20_ContributionShape ==
    /\ [](probe.category \in CategoryEnum =>
            LET config == decayConfig[probe.category]
                full == config.maxContribution * 1000
                limit == config.maxDistance * 10
            IN  /\ probe.distance <= limit => probe.contribution >= full \div 10
                /\ probe.distance > limit => probe.contribution = 0
                /\ probe.distance = 0 => probe.contribution = full
                /\ probe.distance = limit => probe.contribution = full \div 10)
    /\ [][(probe.category \in CategoryEnum /\ probe'.distance >= probe.distance)
            => probe'.contribution <= probe.contribution]_vars

\* The contribution of a health facility at exactly 1000 m is 1.0.
C20_Witness ==
    /\ probe.category = "health"
    /\ probe.distance = 10000
    /\ probe.contribution = 1000

====
